---- MODULE Spec2Model ----
(***************************************************************************)
(* Entity resolution core of the SportPesa scraper: the name normalizer,   *)
(* the candidate generator, the alias key/value cache, the extended        *)
(* in-memory index, the unmapped-proposal queues and the review            *)
(* operations, for the player domain (Utils/alias_utils.py) and the        *)
(* tournament domain (Utils/alias_utils_tournaments.py).                   *)
(*                                                                         *)
(* Names are strings; a character is a string of length 1.  The alphabet   *)
(* is ASCII, and six accented letters, each written as one ASCII sign that *)
(* no name uses otherwise: ^ & @ are E-acute, E-diaeresis and O-acute, and *)
(* ~ + = are their small letters ("C=rdoba" is Cordoba with o-acute).  The *)
(* dashes, quotes, zero-width space and emoji glyphs that the cleaner      *)
(* rewrites before anything else occur in no input.                        *)
(***************************************************************************)
EXTENDS Integers, Sequences, FiniteSets, TLC

(***************************************************************************)
(* Characters                                                              *)
(***************************************************************************)
UpperChars == "ABCDEFGHIJKLMNOPQRSTUVWXYZ^&@"
LowerChars == "abcdefghijklmnopqrstuvwxyz~+="
\* the letters NFKD decomposes into a base letter and a combining mark
AccentedChars == "^&@~+="
BaseChars     == "EEOeeo"
DigitChars    == "0123456789"

At(s, i) == IF i >= 1 /\ i <= Len(s) THEN SubSeq(s, i, i) ELSE ""

CharsOf(s) == {SubSeq(s, i, i) : i \in 1..Len(s)}

UpperSet    == CharsOf(UpperChars)
LowerSet    == CharsOf(LowerChars)
AccentedSet == CharsOf(AccentedChars)
DigitSet    == CharsOf(DigitChars)
AsciiLetterSet == CharsOf(SubSeq(UpperChars, 1, 26)) \cup CharsOf(SubSeq(LowerChars, 1, 26))

IndexIn(alphabet, c) == CHOOSE i \in 1..Len(alphabet) : SubSeq(alphabet, i, i) = c

LowerTable == [c \in UpperSet |-> At(LowerChars, IndexIn(UpperChars, c))]
UpperTable == [c \in LowerSet |-> At(UpperChars, IndexIn(LowerChars, c))]
BaseTable  == [c \in AccentedSet |-> At(BaseChars, IndexIn(AccentedChars, c))]

LowerChar(c) == IF c \in UpperSet THEN LowerTable[c] ELSE c
UpperChar(c) == IF c \in LowerSet THEN UpperTable[c] ELSE c
BaseChar(c)  == IF c \in AccentedSet THEN BaseTable[c] ELSE c

IsLetter(c) == c \in UpperSet \cup LowerSet
IsDigit(c)  == c \in DigitSet
\* \w of a re.UNICODE pattern
IsWord(c)   == IsLetter(c) \/ IsDigit(c) \/ c = "_"
\* \s
WhiteSpace  == {" ", "\t"}
IsSpace(c)  == c \in WhiteSpace
\* [A-Z] under re.IGNORECASE
IsAZ(c)     == c \in AsciiLetterSet

RECURSIVE MapFrom(_, _, _)
MapFrom(F(_), s, i) ==
    IF i > Len(s) THEN "" ELSE F(SubSeq(s, i, i)) \o MapFrom(F, s, i + 1)

\* str.lower()
Lower(s) == MapFrom(LowerChar, s, 1)

RECURSIVE FirstNonSpace(_, _)
FirstNonSpace(s, i) ==
    IF i > Len(s) \/ SubSeq(s, i, i) \notin WhiteSpace THEN i
    ELSE FirstNonSpace(s, i + 1)

RECURSIVE LastNonSpace(_, _)
LastNonSpace(s, i) ==
    IF i < 1 \/ SubSeq(s, i, i) \notin WhiteSpace THEN i
    ELSE LastNonSpace(s, i - 1)

\* s[a-1:b]: the characters a..b of s, none when a > b
Between(s, a, b) == IF a > b THEN "" ELSE SubSeq(s, a, b)

\* str.strip()
Strip(s) == Between(s, FirstNonSpace(s, 1), LastNonSpace(s, Len(s)))

RECURSIVE FirstNotIn(_, _, _)
FirstNotIn(s, chars, i) ==
    IF i > Len(s) \/ SubSeq(s, i, i) \notin chars THEN i
    ELSE FirstNotIn(s, chars, i + 1)

RECURSIVE LastNotIn(_, _, _)
LastNotIn(s, chars, i) ==
    IF i < 1 \/ SubSeq(s, i, i) \notin chars THEN i
    ELSE LastNotIn(s, chars, i - 1)

\* str.strip(chars)
StripChars(s, chars) ==
    Between(s, FirstNotIn(s, chars, 1), LastNotIn(s, chars, Len(s)))

\* str.rstrip(chars)
RStripChars(s, chars) == Between(s, 1, LastNotIn(s, chars, Len(s)))

\* _strip_acc / _strip_accents: NFKD, combining marks dropped
StripAcc(s) == MapFrom(BaseChar, s, 1)

\* _key
Key(s) == Lower(Strip(s))

(***************************************************************************)
(* Normalizer: _clean_display_name                                         *)
(***************************************************************************)
RECURSIVE SkipWhile(_, _, _)
\* the first position >= i whose character fails P
SkipWhile(P(_), s, i) ==
    IF i <= Len(s) /\ P(SubSeq(s, i, i)) THEN SkipWhile(P, s, i + 1) ELSE i

\* s[i..] starts with w, letters compared without case (re.IGNORECASE)
StartsWithCI(s, i, w) ==
    /\ i + Len(w) - 1 <= Len(s)
    /\ Lower(SubSeq(s, i, i + Len(w) - 1)) = w

\* \b between positions i-1 and i
WordBoundary(s, i) == IsWord(At(s, i - 1)) # IsWord(At(s, i))

\* \[[A-Z]{1,3}\]
BracketTagLen(s, i, e) ==
    IF e - (i + 1) \in 1..3 /\ At(s, e) = "]" THEN e + 1 - i ELSE 0

MatchBracketTag(s, i) ==
    IF SubSeq(s, i, i) = "[" THEN BracketTagLen(s, i, SkipWhile(IsAZ, s, i + 1))
    ELSE 0

\* \(\s*[A-Z]{2,3}\s*\) and \(\s*[Ww][Cc]\s*\) (lo = 2, hi = 3), \(\s*[Qq]\s*\)
\* the tag that opens at i, its code at a..b-1, closes at e
ParenTagLen(s, i, a, b, e, lo, hi, ok(_)) ==
    IF b - a \in lo..hi /\ ok(Lower(SubSeq(s, a, b - 1))) /\ At(s, e) = ")"
    THEN e + 1 - i ELSE 0

ParenTagCode(s, i, a, b, lo, hi, ok(_)) ==
    ParenTagLen(s, i, a, b, SkipWhile(IsSpace, s, b), lo, hi, ok)

ParenTagFrom(s, i, a, lo, hi, ok(_)) ==
    ParenTagCode(s, i, a, SkipWhile(IsAZ, s, a), lo, hi, ok)

MatchParenTag(s, i, lo, hi, ok(_)) ==
    IF SubSeq(s, i, i) = "(" THEN ParenTagFrom(s, i, SkipWhile(IsSpace, s, i + 1), lo, hi, ok)
    ELSE 0

AnyCode(w) == TRUE
IsWC(w) == w = "wc"
IsQ(w)  == w = "q"

\* #\s*\d+
\* the digits that start at a, measured from i
DigitsLen(s, i, a, e) == IF e > a THEN e - i ELSE 0

NumberFrom(s, i, a) == DigitsLen(s, i, a, SkipWhile(IsDigit, s, a))

MatchHashNumber(s, i) ==
    IF SubSeq(s, i, i) = "#" THEN NumberFrom(s, i, SkipWhile(IsSpace, s, i + 1))
    ELSE 0

\* \bseed\s*\d+\b
SeedLen(s, i, n) == IF n > 0 /\ WordBoundary(s, i + n) THEN n ELSE 0

MatchSeed(s, i) ==
    IF WordBoundary(s, i) /\ StartsWithCI(s, i, "seed")
    THEN SeedLen(s, i, NumberFrom(s, i, SkipWhile(IsSpace, s, i + 4)))
    ELSE 0

\* \bqualifier\b, \bretired\b, \bwalkover\b
MatchWord(s, i, w) ==
    IF WordBoundary(s, i) /\ StartsWithCI(s, i, w) /\ WordBoundary(s, i + Len(w))
    THEN Len(w) ELSE 0

\* \s{2,}
AtLeastTwo(n) == IF n >= 2 THEN n ELSE 0

MatchSpaces(s, i) == AtLeastTwo(SkipWhile(IsSpace, s, i) - i)

\* the first positive length of a list of match lengths, 0 when none is
FirstAlternative(alts) ==
    IF \A k \in 1..Len(alts) : alts[k] = 0 THEN 0
    ELSE alts[CHOOSE k \in 1..Len(alts) :
                  alts[k] > 0 /\ \A j \in 1..(k - 1) : alts[j] = 0]

\* _CLEAN_PATTERNS: the length of the match of _CLEAN_RE at position i
\* (the first alternative that matches there), 0 when none matches
CleanMatchLen(s, i) ==
    FirstAlternative(<< MatchBracketTag(s, i),
                        MatchParenTag(s, i, 2, 3, AnyCode),
                        MatchParenTag(s, i, 2, 2, IsWC),
                        MatchParenTag(s, i, 1, 1, IsQ),
                        MatchHashNumber(s, i),
                        MatchSeed(s, i),
                        MatchWord(s, i, "qualifier"),
                        MatchWord(s, i, "retired"),
                        MatchWord(s, i, "walkover"),
                        MatchSpaces(s, i) >>)

RECURSIVE SubNoise(_, _)
\* a match of n characters at i becomes one space, no match keeps s[i]
SubMatch(s, i, n) ==
    IF n > 0 THEN " " \o SubNoise(s, i + n)
    ELSE SubSeq(s, i, i) \o SubNoise(s, i + 1)

\* _CLEAN_RE.sub(" ", s)
SubNoise(s, i) ==
    IF i > Len(s) THEN "" ELSE SubMatch(s, i, CleanMatchLen(s, i))

KeptPunct == {"-", ".", ",", "/", "'"}

\* re.sub(r"[^\w\s\-\.,/']", " ", s)
KeepChar(c) == IF IsWord(c) \/ IsSpace(c) \/ c \in KeptPunct THEN c ELSE " "

RECURSIVE CollapseSpaces(_, _)
CollapseMatch(s, i, n) ==
    IF n > 0 THEN " " \o CollapseSpaces(s, i + n)
    ELSE SubSeq(s, i, i) \o CollapseSpaces(s, i + 1)

\* re.sub(r"\s{2,}", " ", s)
CollapseSpaces(s, i) ==
    IF i > Len(s) THEN "" ELSE CollapseMatch(s, i, MatchSpaces(s, i))

StripSet == {" ", ",", ".", "-", "/"}

\* _clean_display_name
Clean(s) ==
    StripChars(CollapseSpaces(MapFrom(KeepChar, SubNoise(s, 1), 1), 1), StripSet)

(***************************************************************************)
(* Splitting and joining                                                   *)
(***************************************************************************)
RECURSIVE SplitOn(_, _, _)
\* the maximal runs of characters outside seps, from position i on:
\* str.split() for seps = whitespace, re.split(r"[ \t\-]+") without the
\* empty pieces, str.split("-") without the empty pieces
SplitOn(s, seps, i) ==
    LET a == FirstNotIn(s, seps, i)
        InTok(c) == c \notin seps
        e == SkipWhile(InTok, s, a)
    IN  IF a > Len(s) THEN << >>
        ELSE <<SubSeq(s, a, e - 1)>> \o SplitOn(s, seps, e)

\* s.split()
SplitWS(s) == SplitOn(s, WhiteSpace, 1)

\* _tokenize
Tokenize(s) == SplitOn(Strip(s), {" ", "\t", "-"}, 1)

RECURSIVE JoinFrom(_, _, _)
JoinFrom(seq, sep, i) ==
    IF i > Len(seq) THEN ""
    ELSE IF i = Len(seq) THEN seq[i]
    ELSE seq[i] \o sep \o JoinFrom(seq, sep, i + 1)

\* sep.join(seq)
Join(seq, sep) == JoinFrom(seq, sep, 1)

HasChar(s, c) == \E i \in 1..Len(s) : SubSeq(s, i, i) = c

\* s.split(",", 1) of a string that holds a comma, each part stripped
CommaParts(s) ==
    LET k == CHOOSE i \in 1..Len(s) :
                 /\ SubSeq(s, i, i) = ","
                 /\ \A j \in 1..(i - 1) : SubSeq(s, j, j) # ","
    IN  << Strip(SubSeq(s, 1, k - 1)), Strip(SubSeq(s, k + 1, Len(s))) >>

(***************************************************************************)
(* Iteration order of a Python set of strings.  list(a_set) walks the hash *)
(* table, and str hashes are salted per process (PYTHONHASHSEED): the      *)
(* order is fixed within a process and differs between processes.  seed    *)
(* stands for the salt of the running process.                             *)
(***************************************************************************)
AllChars == UpperChars \o LowerChars \o DigitChars \o " ,.-/'()[]#!_"

CharCode(c) == IF HasChar(AllChars, c) THEN IndexIn(AllChars, c) ELSE 0

RECURSIVE HashFrom(_, _, _)
HashFrom(s, salt, i) ==
    IF i > Len(s) THEN 0
    ELSE (CharCode(At(s, i)) * (i + salt) + HashFrom(s, salt, i + 1)) % 251

\* the slot order of the process: even seeds walk up, odd seeds walk down
StrHash(s, seed) ==
    LET h == HashFrom(s, seed \div 2, 1)
    IN  IF seed % 2 = 0 THEN h ELSE 0 - h

RECURSIVE ListOfSet(_, _)
\* list(S)
ListOfSet(S, seed) ==
    IF S = {} THEN << >>
    ELSE LET e == CHOOSE a \in S : \A b \in S : StrHash(a, seed) <= StrHash(b, seed)
         IN  <<e>> \o ListOfSet(S \ {e}, seed)

(***************************************************************************)
(* CandidateGenerator                                                      *)
(***************************************************************************)
\* _SURNAME_PARTICLES
SurnameParticles ==
    { "al", "el", "bin", "ibn", "ben", "de", "del", "della", "delle", "dei",
      "degli", "di", "do", "dos", "da", "das", "du", "des", "la", "le", "lo",
      "van", "von", "der", "den", "ter", "ten", "vander", "vanden", "vande",
      "vd", "v.d",
      "san", "santa", "santo", "los", "las" }

IsParticle(t) == Lower(t) \in SurnameParticles

\* the dotted initials ("J.L.") and the compact initials ("JL") of the parts
DottedInitials(parts) ==
    Join([i \in 1..Len(parts) |-> At(parts[i], 1)], ".") \o "."
CompactInitials(parts) ==
    Join([i \in 1..Len(parts) |-> At(parts[i], 1)], "")

Range(seq) == {seq[i] : i \in 1..Len(seq)}

\* the cores of the first token t0 of the given part
FirstCoreParts(t0, parts) ==
    IF HasChar(t0, "-") /\ parts # << >>
    THEN {t0} \cup Range(parts)
              \cup {DottedInitials(parts), CompactInitials(parts)}
    ELSE {t0}

FirstCoreToken(t0) == FirstCoreParts(t0, SplitOn(t0, {"-"}, 1))

FirstCoreTokens(ws) == IF ws = << >> THEN {} ELSE FirstCoreToken(ws[1])

\* the set cores of _first_cores_from_given
FirstCoreSet(given) == FirstCoreTokens(SplitWS(given))

\* _first_cores_from_given
FirstCores(given, seed) == ListOfSet(FirstCoreSet(given), seed)

\* the index of the first token of the run of particles that ends right
\* before token ni (ni itself when no particle precedes it)
ParticleRunStart(toks, ni) ==
    CHOOSE a \in 1..ni :
        /\ \A k \in a..(ni - 1) : IsParticle(toks[k])
        /\ a = 1 \/ ~IsParticle(toks[a - 1])

\* the cores around the last non-particle token toks[ni]: the token, the
\* token with the particles right before it, and the two-token tail
LastCoreOut(toks, ni) ==
    {Join(toks, " "), toks[ni],
     Join(SubSeq(toks, ParticleRunStart(toks, ni), ni), " ")}
    \cup (IF ni >= 2 /\ ~IsParticle(toks[ni - 1])
          THEN {toks[ni - 1] \o " " \o toks[ni]} ELSE {})

\* the set out of _last_cores_from_surname, over the tokens of the surname
LastCoreSetOf(toks, nonPart) ==
    IF Len(toks) = 0 THEN {}
    ELSE IF nonPart = {} THEN {Join(toks, " ")}
    ELSE {v \in LastCoreOut(toks, CHOOSE i \in nonPart : \A k \in nonPart : k <= i) :
              Lower(Strip(v)) \notin SurnameParticles}

NonParticles(toks) == {i \in 1..Len(toks) : ~IsParticle(toks[i])}

LastCoreTokens(toks) == LastCoreSetOf(toks, NonParticles(toks))

\* a segmentation that knows no particles: the surname as it stands
WholeSurnameOnly(surname) ==
    IF Len(Tokenize(surname)) = 0 THEN {} ELSE {Join(Tokenize(surname), " ")}

\* the set out of _last_cores_from_surname
LastCoreSet(surname) == LastCoreTokens(Tokenize(surname))

\* _last_cores_from_surname
LastCores(surname, seed) == ListOfSet(LastCoreSet(surname), seed)

\* p.strip().rstrip(".") for each whitespace token of the given part
UndottedTokens(first) ==
    LET ws == SplitWS(first)
    IN  [i \in 1..Len(ws) |-> RStripChars(Strip(ws[i]), {"."})]

\* "First Last" out of the parts of "Last, First"
FlipParts(n, parts) ==
    IF parts[1] = "" \/ parts[2] = "" THEN n
    ELSE Strip(Join(UndottedTokens(parts[2]), " ") \o " " \o Strip(parts[1]))

\* _flip_last_first_if_any on a cleaned name
FlipCleaned(n) == IF ~HasChar(n, ",") THEN n ELSE FlipParts(n, CommaParts(n))

\* _flip_last_first_if_any
FlipLastFirst(name) == FlipCleaned(Clean(name))

RECURSIVE CrossFrom(_, _, _)
\* [f"{f} {l}".strip() for f in fs for l in ls], from the k-th pair on
CrossFrom(fs, ls, k) ==
    IF Len(ls) = 0 \/ k > Len(fs) * Len(ls) THEN << >>
    ELSE LET f == fs[((k - 1) \div Len(ls)) + 1]
             l == ls[((k - 1) % Len(ls)) + 1]
         IN  <<Strip(f \o " " \o l)>> \o CrossFrom(fs, ls, k + 1)

Cross(fs, ls) == CrossFrom(fs, ls, 1)

\* the flipped name, then every first core with every last core
CommaCandidatesOf(parts, flipped, seed) ==
    (IF flipped # "" THEN <<flipped>> ELSE << >>)
    \o Cross(FirstCores(parts[2], seed), LastCores(parts[1], seed))

\* the candidates list of the comma branch of resolve_player
CommaCandidates(orig, seed) ==
    CommaCandidatesOf(CommaParts(orig), FlipLastFirst(orig), seed)

\* the while loop of the plain branch: the last token with the particles
\* right before it
PlainSurname(toks) ==
    Join(SubSeq(toks, ParticleRunStart(toks, Len(toks)), Len(toks)), " ")

RECURSIVE Dedupe(_, _)
\* the seen set of the plain branch: later repeats are skipped
Dedupe(seq, i) ==
    IF i > Len(seq) THEN << >>
    ELSE IF \E k \in 1..(i - 1) : seq[k] = seq[i] THEN Dedupe(seq, i + 1)
    ELSE <<seq[i]>> \o Dedupe(seq, i + 1)

\* the plain branch over the whitespace tokens of the name
PlainCandidatesOf(toks, seed) ==
    IF Len(toks) < 3 THEN << >>
    ELSE Dedupe(Cross(FirstCores(Join(SubSeq(toks, 1, Len(toks) - 1), " "), seed),
                      LastCores(PlainSurname(toks), seed)
                      \o LastCores(Join(SubSeq(toks, 2, Len(toks)), " "), seed)), 1)

\* the candidates the plain branch of resolve_player probes, in order
PlainCandidates(orig, seed) == PlainCandidatesOf(SplitWS(orig), seed)

(***************************************************************************)
(* AliasCache (alias_kv.py): one table per domain, alias -> id             *)
(***************************************************************************)
\* Python None: what a lookup returns for an absent row; no entity id
None == -1

EmptyKV == [k \in {} |-> None]

\* get_player_id / get_tournament_id
KvGet(kv, k) == IF k \in DOMAIN kv THEN kv[k] ELSE None

\* an insert that leaves a row that is there alone (ON CONFLICT DO NOTHING)
InsertOrIgnore(kv, pair) == kv @@ (pair[1] :> pair[2])

\* one INSERT ... ON CONFLICT(alias) DO UPDATE of the executemany
Upsert(kv, pair) == (pair[1] :> pair[2]) @@ kv

RECURSIVE UpsertFrom(_, _, _)
UpsertFrom(kv, pairs, i) ==
    IF i > Len(pairs) THEN kv ELSE UpsertFrom(Upsert(kv, pairs[i]), pairs, i + 1)

\* upsert_player_aliases / upsert_tournament_aliases
UpsertMany(kv, pairs) == UpsertFrom(kv, pairs, 1)

RECURSIVE PairsOf(_, _)
\* a list of (key, uid) pairs over a set of keys, all with the same uid
PairsOf(keys, uid) ==
    IF keys = {} THEN << >>
    ELSE LET k == CHOOSE a \in keys : TRUE
         IN  <<(<<k, uid>>)>> \o PairsOf(keys \ {k}, uid)

(***************************************************************************)
(* EntityIndex: the extended in-memory index of the player corpus.  A      *)
(* corpus is the list of its records in file order (the order of           *)
(* data.items()); a record is [id, first_name, last_name, canonical_name]. *)
(***************************************************************************)
LastOf(seq) == seq[Len(seq)]

\* rec.get("canonical_name") or "first last", stripped
CanonOf(rec) ==
    Strip(IF rec.canonical_name # "" THEN rec.canonical_name
          ELSE Strip(rec.first_name) \o " " \o Strip(rec.last_name))

\* the normalized keys one record contributes to _build_ext_index
IndexKeys(rec) ==
    LET first == Strip(rec.first_name)
        last  == Strip(rec.last_name)
        canon == CanonOf(rec)
        givenSrc == IF first # "" THEN first ELSE canon
        lastSrc  == IF last # "" THEN last
                    ELSE IF canon # "" THEN LastOf(SplitWS(canon)) ELSE ""
        plain == IF first # "" \/ last # ""
                 THEN {Strip(SplitWS(givenSrc)[1] \o " " \o lastSrc)} ELSE {}
        cores == {Strip(f \o " " \o l) :
                      f \in FirstCoreSet(givenSrc), l \in LastCoreSet(lastSrc)}
    IN  IF first = "" /\ last = "" /\ canon = "" THEN {}
        ELSE {Key(StripAcc(Clean(k))) : k \in {canon} \cup plain \cup cores} \ {""}

RECURSIVE BuildExtIndexFrom(_, _, _)
\* "if nk and nk not in idx: idx[nk] = uid": the first record to derive a
\* key keeps it
BuildExtIndexFrom(data, idx, i) ==
    IF i > Len(data) THEN idx
    ELSE LET fresh == IndexKeys(data[i]) \ DOMAIN idx
             next == idx @@ [k \in fresh |-> data[i].id]
         IN  BuildExtIndexFrom(data, next, i + 1)

(***************************************************************************)
(* The alias variants and the pairs of the seeders (players)               *)
(***************************************************************************)
\* the hyphen variants of _alias_variants_for
HyphenVariants(first, last) ==
    LET parts == SplitOn(first, {"-"}, 1)
    IN  IF HasChar(first, "-") /\ parts # << >>
        THEN UNION {{sub \o " " \o last, last \o ", " \o sub} : sub \in Range(parts)}
             \cup {DottedInitials(parts) \o " " \o last,
                   CompactInitials(parts) \o " " \o last}
        ELSE {}

\* last[:3]
Prefix3(s) == SubSeq(s, 1, IF Len(s) < 3 THEN Len(s) ELSE 3)

\* _alias_variants_for (the sorted list, as the set of its elements)
AliasVariantsFor(firstRaw, lastRaw) ==
    LET first == Strip(firstRaw)
        last  == Strip(lastRaw)
        base  == {Strip(first \o " " \o last)}
        comma == IF first # "" /\ last # "" THEN {last \o ", " \o first} ELSE {}
        trunc == IF last # ""
                 THEN {first \o " " \o Prefix3(last) \o ".",
                       Prefix3(last) \o ". " \o first}
                 ELSE {}
        vs    == base \cup comma \cup HyphenVariants(first, last) \cup trunc
        add   == UNION {{StripAcc(v), Lower(v), Lower(StripAcc(v))} : v \in vs}
    IN  IF first = "" /\ last = "" THEN {}
        ELSE {Strip(CollapseSpaces(v, 1)) : v \in {u \in vs \cup add : Strip(u) # ""}}

\* the base pairs of one record in both seeders: the non-empty keys of
\* {canon, _strip_acc(canon), canon.lower(), _strip_acc(canon).lower()}
CanonSeedKeys(canon) ==
    {Key(v) : v \in {canon, StripAcc(canon), Lower(canon), Lower(StripAcc(canon))}}
        \ {""}

RECURSIVE SeedCanonicalPairs(_, _)
\* the pairs list of seed_aliases_from_canonicals, from record i on
SeedCanonicalPairs(data, i) ==
    IF i > Len(data) THEN << >>
    ELSE PairsOf(CanonSeedKeys(CanonOf(data[i])), data[i].id)
         \o SeedCanonicalPairs(data, i + 1)

RECURSIVE SeedVariantPairs(_, _)
\* the pairs list of seed_all_alias_variants, from record i on
SeedVariantPairs(data, i) ==
    LET rec == data[i]
        vkeys == {Key(v) : v \in AliasVariantsFor(rec.first_name, rec.last_name)} \ {""}
    IN  IF i > Len(data) THEN << >>
        ELSE PairsOf(CanonSeedKeys(CanonOf(rec)), rec.id)
             \o PairsOf(vkeys, rec.id)
             \o SeedVariantPairs(data, i + 1)

(***************************************************************************)
(* The name guess of a proposal: _parse_name_guess                         *)
(***************************************************************************)
RECURSIVE TitleFrom(_, _)
\* str.title(): a letter that follows a letter is lowered, any other letter
\* is raised
TitleFrom(s, i) ==
    IF i > Len(s) THEN ""
    ELSE (IF IsLetter(At(s, i - 1)) THEN LowerChar(At(s, i)) ELSE UpperChar(At(s, i)))
         \o TitleFrom(s, i + 1)

Title(s) == TitleFrom(s, 1)

RECURSIVE Without(_, _, _)
\* s.replace(c, "")
Without(s, c, i) ==
    IF i > Len(s) THEN ""
    ELSE (IF At(s, i) = c THEN "" ELSE At(s, i)) \o Without(s, c, i + 1)

\* the split of a token list into "first ... last": all but the last token,
\* and the last token, both title-cased
GuessFromTokens(toks, whole) ==
    LET first == Title(Join(SubSeq(toks, 1, Len(toks) - 1), " "))
        last  == Title(LastOf(toks))
    IN  IF Len(toks) >= 2
        THEN [first_name |-> first, last_name |-> last,
              canonical_guess |-> first \o " " \o last]
        ELSE [first_name |-> Title(whole), last_name |-> "",
              canonical_guess |-> Title(whole)]

\* the guess of a name that splits into the tokens of spaced
GuessOfSpaced(spaced, whole) == GuessFromTokens(SplitWS(spaced), whole)

\* the guess of the flipped form of a comma name
GuessOfFlipped(flipped) == GuessOfSpaced(flipped, flipped)

\* _parse_name_guess on a cleaned name
GuessOfCleaned(rn) ==
    IF HasChar(rn, ",") THEN GuessOfFlipped(FlipLastFirst(rn))
    ELSE GuessOfSpaced(Without(rn, ".", 1), rn)

\* _parse_name_guess
ParseNameGuess(raw) == GuessOfCleaned(Clean(raw))

(***************************************************************************)
(* The documents and the feed.                                             *)
(***************************************************************************)
\* the hash salts a process may draw
NumHashSeeds == 2

HashSeeds == 0..(NumHashSeeds - 1)

\* all_players.json as the runs find it
PlayerCorpus ==
    << [id |-> 1, first_name |-> "Rafael", last_name |-> "Nadal",
        canonical_name |-> "Rafael Nadal"],
       [id |-> 2, first_name |-> "Botic", last_name |-> "van de Zandschulp",
        canonical_name |-> "Botic van de Zandschulp"],
       [id |-> 3, first_name |-> "Alex", last_name |-> "Minaur",
        canonical_name |-> "Alex Minaur"],
       [id |-> 4, first_name |-> "Jan-Lennard", last_name |-> "Struff",
        canonical_name |-> "Jan-Lennard Struff"] >>

\* all_players.json with a second record of one player: two records derive
\* the key 'rafael nadal'
TwinCorpus ==
    PlayerCorpus \o << [id |-> 5, first_name |-> "Rafael", last_name |-> "Nadal",
                        canonical_name |-> "Rafael Nadal"] >>

\* all_players.json in which the name of one player is the clipped name of
\* another, the record of the shorter name first
ClippedCorpus ==
    << [id |-> 7, first_name |-> "Rafael", last_name |-> "Nad",
        canonical_name |-> "Rafael Nad"],
       [id |-> 1, first_name |-> "Rafael", last_name |-> "Nadal",
        canonical_name |-> "Rafael Nadal"] >>

\* the corpora with records that share or nearly share a key
OddCorpora == {TwinCorpus, ClippedCorpus}

\* the names looked up on them
OddRaws == { "Rafael Nadal", "Nadal, Rafael", "Nad., Rafael", "Botic Zandschulp" }

\* the raw competitor and selection names the feed supplies
PlayerRaws ==
    { "Rafael Nadal", "Nadal, Rafael", "Nadal, Rafael seed (3)",
      "Botic Zandschulp", "Alex de Minaur", "Doe, Joe", "J. Doe" }

\* the selection names of the markets that are not a competitor of the match
SelectionRaws == { "Rafael Nadal", "Alex de Minaur", "Doe, Joe" }

\* all_tournaments.json as the runs find it
TournamentCorpus == << [id |-> 1, canonical_name |-> "Rome Open"] >>

\* the raw competition names the feed supplies
TournamentRaws == { "Rome Open", "C=rdoba Open", "Cordoba Open", "" }

\* the competitor names and the competition names of the matches of a
\* scrape run: the feed repeats a name, also in another case or accent
ScrapePlayerRaws == { "Rafael Nadal", "Doe, Joe", "doe, joe" }
ScrapeTournamentRaws == { "Rome Open", "C=rdoba Open", "Cordoba Open" }

\* the values the reviewer passes to set-next-id
NextIdValues == {1, 500}

\* the ids the reviewer passes to mark-duplicate as the existing entity
ExistingIds == {1, 99}

(***************************************************************************)
(* The values of the pure string functions on the names the runs meet.     *)
(* They are computed once, when a behaviour starts, and read from memo     *)
(* from then on: CleanOf, StripAccOf and KeyOf are Clean, StripAcc and     *)
(* Key, CacheCandidates is CandidatesOf, and so on.  No step changes memo. *)
(***************************************************************************)
CandidatesOf(orig, seed) ==
    IF HasChar(orig, ",") THEN CommaCandidates(orig, seed)
    ELSE PlainCandidates(orig, seed)

\* the corpora the index and the seeders are run on
PlayerCorpora == {PlayerCorpus} \cup OddCorpora

CorpusNames ==
    UNION {UNION {{data[i].canonical_name, data[i].first_name, data[i].last_name} :
               i \in 1..Len(data)} : data \in PlayerCorpora}
    \cup {TournamentCorpus[i].canonical_name : i \in 1..Len(TournamentCorpus)}

\* the names of a tournament proposal: its aliases, its guess, and the name
\* of the record an approval makes of it
TournamentProposalNames(raw) ==
    {raw, Lower(raw), Title(Strip(raw)), StripAcc(raw), Lower(StripAcc(raw)),
     Strip(Title(Strip(raw)))}

\* names a caller may pass that the feed of the runs does not supply: the
\* dotted-initial, hyphenated-initial and compact-initial forms, the full
\* particle surname, and the degenerate inputs
ProbeNames ==
    { "R. Nadal", "Botic van de Zandschulp", "Struff, Jan-Lennard",
      "J.-L. Struff", "JL Struff", "Jan-Lennard Struff",
      "De, Anna", "Nadal,", "van de", "seed (3)" }

\* the surnames handed to _last_cores_from_surname
SurnameInputs ==
    { "Nadal", "Minaur", "de Minaur", "van de Zandschulp", "Struff",
      "Lopez San Martin", "de", "De", "van de", "" }

\* the names the runs start from: the names of the feed and of the
\* documents, the keys the seeders write, and the guesses of the proposals
GivenNames(guess, pairs) ==
    PlayerRaws \cup TournamentRaws \cup CorpusNames \cup ProbeNames \cup OddRaws
    \cup ScrapePlayerRaws \cup ScrapeTournamentRaws
    \cup {guess[raw].canonical_guess : raw \in DOMAIN guess}
    \cup UNION {{p[1] : p \in Range(pairs[data])} : data \in DOMAIN pairs}
    \cup UNION {TournamentProposalNames(raw) : raw \in TournamentRaws}

\* the normal forms of a name and the candidates of its cleaned form c
FormsOfCleaned(s, c) ==
    [clean |-> c, acc |-> StripAcc(s), key |-> Key(s),
     candidates |-> [seed \in HashSeeds |-> CandidatesOf(c, seed)]]

FormsOf(s) == FormsOfCleaned(s, Clean(s))

\* the names that occur in the forms of the names of S
NamesIn(forms, S) ==
    UNION {{forms[s].clean, forms[s].acc, forms[s].key}
           \cup UNION {Range(forms[s].candidates[seed]) : seed \in HashSeeds} : s \in S}

\* how many times the forms of the names of the forms are added
NameRounds == 4

RECURSIVE NameForms(_, _, _)
\* the forms of the names of fresh, then of the names that occur in them,
\* and so on for the given number of rounds
MoreNameForms(forms, fresh, rounds) ==
    NameForms(forms, NamesIn(forms, fresh) \ DOMAIN forms, rounds - 1)

NameForms(forms, fresh, rounds) ==
    IF fresh = {} \/ rounds = 0 THEN forms
    ELSE MoreNameForms(forms @@ [s \in fresh |-> FormsOf(s)], fresh, rounds)

GuessTable == [raw \in PlayerRaws \cup ScrapePlayerRaws |-> ParseNameGuess(raw)]

\* the alias variants of the names of the guesses
VariantTable(guess) ==
    [g \in {<<guess[raw].first_name, guess[raw].last_name>> : raw \in DOMAIN guess}
        |-> AliasVariantsFor(g[1], g[2])]

VariantPairsTable == [data \in PlayerCorpora |-> SeedVariantPairs(data, 1)]

MemoOf(guess, pairs) ==
    [forms |-> NameForms([s \in {} |-> s], GivenNames(guess, pairs), NameRounds),
     index |-> [data \in PlayerCorpora |-> BuildExtIndexFrom(data, EmptyKV, 1)],
     canonicalPairs |-> [data \in PlayerCorpora |-> SeedCanonicalPairs(data, 1)],
     variantPairs |-> pairs,
     guess |-> guess,
     variants |-> VariantTable(guess),
     cores |-> [s \in SurnameInputs |-> [seed \in HashSeeds |-> LastCores(s, seed)]]]

Memo == MemoOf(GuessTable, VariantPairsTable)

VARIABLE memo

\* _clean_display_name, _strip_acc and _key
CleanOf(s) == memo.forms[s].clean
StripAccOf(s) == memo.forms[s].acc
KeyOf(s) == memo.forms[s].key

\* _last_cores_from_surname in the process of the given seed
LastCoresOf(surname, seed) == memo.cores[surname][seed]

\* _parse_name_guess and _alias_variants_for
GuessOf(raw) == memo.guess[raw]
VariantsOf(first, last) == memo.variants[<<first, last>>]

(***************************************************************************)
(* The probes of the cache and of the index                                *)
(***************************************************************************)
\* the probes of _kv_hit: the key of the cleaned name, and when that misses
\* the key of its accent-folded form
KvHitKeys(kv, name) ==
    LET c == CleanOf(name)
        k1 == KeyOf(c)
    IN  IF KvGet(kv, k1) # None THEN <<k1>> ELSE <<k1, KeyOf(StripAccOf(c))>>

\* _kv_hit
KvHit(kv, name) ==
    LET ks == KvHitKeys(kv, name)
    IN  KvGet(kv, ks[Len(ks)])

\* the pairs of an auto-heal: the non-empty keys of
\* {orig, _strip_acc(orig), cand, _strip_acc(cand)}, all bound to uid
HealKeys(orig, cand) ==
    {KeyOf(v) : v \in {orig, StripAccOf(orig), cand, StripAccOf(cand)}} \ {""}

\* _build_ext_index
BuildExtIndex(data) == memo.index[data]

\* _EXT_INDEX before its first use
NoExtIndex == [built |-> FALSE, map |-> EmptyKV]

\* the index after _ext_lookup ran: built on first use, then kept
ExtIndexAfterUse(ext, data) ==
    IF ext.built THEN ext ELSE [built |-> TRUE, map |-> BuildExtIndex(data)]

\* the key _ext_lookup reads
ExtKey(name) == KeyOf(StripAccOf(CleanOf(name)))

\* _ext_lookup
ExtLookup(ext, data, name) == KvGet(ExtIndexAfterUse(ext, data).map, ExtKey(name))

(***************************************************************************)
(* Resolver: resolve_player.  A call is evaluated as a whole; its result   *)
(* carries the id (None: absent), the cache and the index after the call,  *)
(* the ordered trace of its cache probes and index accesses, and the path  *)
(* that produced the id.                                                   *)
(***************************************************************************)
\* the position of the first candidate _kv_hit finds, 0 when none hits
FirstKvHit(kv, cands) ==
    LET hits == {i \in 1..Len(cands) : KvHit(kv, cands[i]) # None}
    IN  IF hits = {} THEN 0 ELSE CHOOSE i \in hits : \A j \in hits : i <= j

\* the position of the first candidate _ext_lookup finds, 0 when none hits
FirstExtHit(ext, data, cands) ==
    LET hits == {i \in 1..Len(cands) : ExtLookup(ext, data, cands[i]) # None}
    IN  IF hits = {} THEN 0 ELSE CHOOSE i \in hits : \A j \in hits : i <= j

KvEvents(kv, name) ==
    LET ks == KvHitKeys(kv, name)
    IN  [i \in 1..Len(ks) |->
            [kind |-> "kv", key |-> ks[i], hit |-> KvGet(kv, ks[i]) # None]]

RECURSIVE KvEventsUpTo(_, _, _, _)
\* the probes of candidates i..n
KvEventsUpTo(kv, cands, i, n) ==
    IF i > n THEN << >>
    ELSE KvEvents(kv, cands[i]) \o KvEventsUpTo(kv, cands, i + 1, n)

ExtEvent(ext, data, name) ==
    [kind |-> "idx", key |-> ExtKey(name), hit |-> ExtLookup(ext, data, name) # None]

\* the candidates steps 2 and 3 probe in the cache
CacheCandidates(orig, seed) == memo.forms[orig].candidates[seed]

\* "candidates" as step 4 of resolve_player sees it: the comma branch fills
\* the list, the plain branch keeps its candidates in a loop variable
IndexCandidates(orig, seed) ==
    IF HasChar(orig, ",") THEN CacheCandidates(orig, seed) ELSE << >>

\* step 4 of resolve_player, reached with uid None; the first _ext_lookup
\* builds the index, the later ones read the built one
ResolveByIndex(orig, kv, ext, data, seed, probes) ==
    LET ext2  == ExtIndexAfterUse(ext, data)
        uid0  == ExtLookup(ext2, data, orig)
        cands == IndexCandidates(orig, seed)
        w     == FirstExtHit(ext2, data, cands)
        n     == IF w = 0 THEN Len(cands) ELSE w
        candEvents == [i \in 1..n |-> ExtEvent(ext2, data, cands[i])]
    IN  IF uid0 # None
        THEN [uid |-> uid0, kv |-> kv, ext |-> ext2, path |-> "index",
              trace |-> probes \o <<ExtEvent(ext2, data, orig)>>]
        ELSE [uid |-> IF w = 0 THEN None ELSE ExtLookup(ext2, data, cands[w]),
              kv |-> kv, ext |-> ext2,
              path |-> IF w = 0 THEN "none" ELSE "index",
              trace |-> probes \o <<ExtEvent(ext2, data, orig)>> \o candEvents]

\* a resolver that asks the index before it probes the cache: what the
\* ordering contract of resolve_player excludes
ResolveIndexFirst(raw, kv, ext, data, seed) ==
    LET orig == CleanOf(raw)
        byIndex == ResolveByIndex(orig, kv, ext, data, seed, << >>)
    IN  IF byIndex.uid # None THEN byIndex
        ELSE [byIndex EXCEPT !.trace = @ \o KvEvents(kv, orig)]

\* resolve_player
ResolvePlayer(raw, kv, ext, data, seed) ==
    LET orig  == CleanOf(raw)
        uid1  == KvHit(kv, orig)
        cands == CacheCandidates(orig, seed)
        w     == FirstKvHit(kv, cands)
        n     == IF w = 0 THEN Len(cands) ELSE w
        probes == KvEvents(kv, orig) \o KvEventsUpTo(kv, cands, 1, n)
    IN  IF uid1 # None
        THEN [uid |-> uid1, kv |-> kv, ext |-> ext, path |-> "direct",
              trace |-> KvEvents(kv, orig)]
        ELSE IF w # 0
        THEN LET uid == KvHit(kv, cands[w])
             IN  [uid |-> uid,
                  kv |-> UpsertMany(kv, PairsOf(HealKeys(orig, cands[w]), uid)),
                  ext |-> ext, path |-> "candidate", trace |-> probes]
        ELSE ResolveByIndex(orig, kv, ext, data, seed, probes)

\* the record resolve_player returns for uid: players["data"].get(str(uid), {})
CanonicalNameOf(data, uid) ==
    LET hits == {i \in 1..Len(data) : data[i].id = uid}
    IN  IF hits = {} THEN "" ELSE data[CHOOSE i \in hits : TRUE].canonical_name

(***************************************************************************)
(* Seeding (players)                                                       *)
(***************************************************************************)
\* seed_aliases_from_canonicals: the table after the upsert
SeedAliasesFromCanonicals(kv, data) == UpsertMany(kv, memo.canonicalPairs[data])

\* seed_all_alias_variants: the table after the upsert
SeedAllAliasVariants(kv, data) == UpsertMany(kv, memo.variantPairs[data])

(***************************************************************************)
(* ProposalQueue (players): register_unmapped_player                       *)
(***************************************************************************)
\* the proposal register_unmapped_player builds for a first sighting
NewPlayerProposal(raw, pid, ctx) ==
    LET guess == GuessOf(raw)
    IN  [proposal_id |-> pid, status |-> "pending",
         raw_samples |-> <<raw>>,
         canonical_name_guess |-> guess.canonical_guess,
         aliases |-> VariantsOf(guess.first_name, guess.last_name),
         sightings |-> 1,
         context |-> <<ctx>>]

\* the dedupe test of register_unmapped_player against one queued proposal
PlayerProposalMatches(p, raw) ==
    \/ KeyOf(StripAccOf(p.canonical_name_guess))
           = KeyOf(StripAccOf(GuessOf(raw).canonical_guess))
    \/ KeyOf(StripAccOf(CleanOf(raw)))
           \in {KeyOf(StripAccOf(CleanOf(p.raw_samples[i]))) : i \in 1..Len(p.raw_samples)}

\* a sighting merged into a queued proposal (both domains): the context of
\* the sighting is not recorded
\* a merge that forgets to count the sighting
MergeUncounted(p, raw, aliases) ==
    [p EXCEPT !.raw_samples = IF raw \in Range(@) THEN @ ELSE Append(@, raw),
              !.aliases = @ \cup aliases]

MergeSighting(p, raw, aliases) ==
    [p EXCEPT !.sightings = @ + 1,
              !.raw_samples = IF raw \in Range(@) THEN @ ELSE Append(@, raw),
              !.aliases = @ \cup aliases]

\* the position of the first queued proposal that matches, 0 when none does
FirstMatch(queue, Matches(_)) ==
    LET hits == {i \in 1..Len(queue) : Matches(queue[i])}
    IN  IF hits = {} THEN 0 ELSE CHOOSE i \in hits : \A j \in hits : i <= j

\* a register that returns a proposal it does not save
RegisterPlayerUnsaved(queue, raw, pid, ctx) ==
    [queue |-> queue, prop |-> NewPlayerProposal(raw, pid, ctx)]

\* register_unmapped_player: the queue after the call and the proposal it
\* returns
RegisterPlayer(queue, raw, pid, ctx) ==
    LET Matches(p) == PlayerProposalMatches(p, raw)
        m == FirstMatch(queue, Matches)
        fresh == NewPlayerProposal(raw, pid, ctx)
        merged == MergeSighting(queue[m], raw, fresh.aliases)
    IN  IF m # 0
        THEN [queue |-> [queue EXCEPT ![m] = merged], prop |-> merged]
        ELSE [queue |-> Append(queue, fresh), prop |-> fresh]

(***************************************************************************)
(* Tournament domain (alias_utils_tournaments.py).  The corpus document    *)
(* is [has_meta, next_id, data]: data is the list of its records in file   *)
(* order, a record is [id, canonical_name]; has_meta is FALSE for a        *)
(* document that carries no meta.next_id, and next_id is then unread.      *)
(***************************************************************************)
Max(S) == CHOOSE m \in S : \A o \in S : o <= m

IdsOf(data) == {data[i].id : i \in 1..Len(data)}

\* _ensure_meta / _ensure_players_meta: next_id as load_databases returns it
EnsureMeta(root) ==
    IF root.has_meta THEN root.next_id
    ELSE IF root.data = << >> THEN 1 ELSE Max(IdsOf(root.data)) + 1

RECURSIVE CanonicalIndexFrom(_, _, _)
\* "if key: idx[key] = int(tid)": a later record takes the key over
CanonicalIndexFrom(data, idx, i) ==
    LET key == KeyOf(StripAccOf(data[i].canonical_name))
    IN  IF i > Len(data) THEN idx
        ELSE IF key = "" THEN CanonicalIndexFrom(data, idx, i + 1)
        ELSE CanonicalIndexFrom(data, Upsert(idx, <<key, data[i].id>>), i + 1)

\* _canonical_index (tournaments)
CanonicalIndex(data) == CanonicalIndexFrom(data, EmptyKV, 1)

\* the heal pairs of resolve_tournament
TournamentHealPairs(k1, k2, tid) ==
    (IF k1 # "" THEN <<(<<k1, tid>>)>> ELSE << >>)
    \o (IF k2 # "" /\ k2 # k1 THEN <<(<<k2, tid>>)>> ELSE << >>)

\* resolve_tournament
ResolveTournament(raw, kv, data) ==
    LET k1 == KeyOf(raw)
        k2 == KeyOf(StripAccOf(raw))
        e1 == [kind |-> "kv", key |-> k1, hit |-> KvGet(kv, k1) # None]
        e2 == [kind |-> "kv", key |-> k2, hit |-> KvGet(kv, k2) # None]
        tid == KvGet(CanonicalIndex(data), k2)
        e3 == [kind |-> "idx", key |-> k2, hit |-> tid # None]
    IN  IF e1.hit
        THEN [uid |-> KvGet(kv, k1), kv |-> kv, path |-> "direct", trace |-> <<e1>>]
        ELSE IF e2.hit
        THEN [uid |-> KvGet(kv, k2), kv |-> kv, path |-> "direct", trace |-> <<e1, e2>>]
        ELSE IF tid # None
        THEN [uid |-> tid, kv |-> UpsertMany(kv, TournamentHealPairs(k1, k2, tid)),
              path |-> "index", trace |-> <<e1, e2, e3>>]
        ELSE [uid |-> None, kv |-> kv, path |-> "none", trace |-> <<e1, e2, e3>>]

\* idx.items() of a dict filled in record order: the keys in the order of
\* their first insertion, each with the id of its last writer
RECURSIVE CanonicalKeyOrder(_, _)
CanonicalKeyOrder(data, i) ==
    LET key == KeyOf(StripAccOf(data[i].canonical_name))
        seen == {KeyOf(StripAccOf(data[j].canonical_name)) : j \in 1..(i - 1)}
    IN  IF i > Len(data) THEN << >>
        ELSE IF key = "" \/ key \in seen THEN CanonicalKeyOrder(data, i + 1)
        ELSE <<key>> \o CanonicalKeyOrder(data, i + 1)

RECURSIVE TournamentSeedPairsFrom(_, _, _)
TournamentSeedPairsFrom(data, keys, i) ==
    LET tid == CanonicalIndex(data)[keys[i]]
        lower == KeyOf(CanonicalNameOf(data, tid))
    IN  IF i > Len(keys) THEN << >>
        ELSE <<(<<keys[i], tid>>)>>
             \o (IF lower # "" /\ lower # keys[i] THEN <<(<<lower, tid>>)>> ELSE << >>)
             \o TournamentSeedPairsFrom(data, keys, i + 1)

\* the pairs list of seed_aliases_from_canonicals (tournaments)
TournamentSeedPairs(data) ==
    TournamentSeedPairsFrom(data, CanonicalKeyOrder(data, 1), 1)

\* the proposal register_unmapped_tournament builds for a first sighting
NewTournamentProposal(raw, pid, ctx) ==
    [proposal_id |-> pid, status |-> "pending",
     raw_samples |-> <<raw>>,
     canonical_name_guess |-> Title(Strip(raw)),
     aliases |-> {raw, Lower(raw), Title(Strip(raw)), StripAccOf(raw),
                  Lower(StripAccOf(raw))},
     sightings |-> 1,
     context |-> <<ctx>>]

\* a dedupe test that knows a raw name only when it has seen that very string
SameRawMatches(p, raw) == raw \in Range(p.raw_samples)

\* the dedupe test of register_unmapped_tournament against one proposal
TournamentProposalMatches(p, raw) ==
    \/ KeyOf(StripAccOf(p.canonical_name_guess)) = KeyOf(Title(Strip(raw)))
    \/ KeyOf(StripAccOf(raw))
           \in {KeyOf(StripAccOf(p.raw_samples[i])) : i \in 1..Len(p.raw_samples)}

\* register_unmapped_tournament
RegisterTournament(queue, raw, pid, ctx) ==
    LET Matches(p) == TournamentProposalMatches(p, raw)
        m == FirstMatch(queue, Matches)
        fresh == NewTournamentProposal(raw, pid, ctx)
        merged == MergeSighting(queue[m], raw, fresh.aliases)
    IN  IF m # 0
        THEN [queue |-> [queue EXCEPT ![m] = merged], prop |-> merged]
        ELSE [queue |-> Append(queue, fresh), prop |-> fresh]

\* a lookup that settles for the head of the queue
FirstProposal(queue, pid) == IF queue = << >> THEN 0 ELSE 1

\* next(p for p in proposals if p["proposal_id"] == proposal_id, None): the
\* position of the target, 0 for None
FindProposal(queue, pid) ==
    LET Matches(p) == p.proposal_id = pid
    IN  FirstMatch(queue, Matches)

\* a removal that drops the whole queue
ClearProposals(queue, pid) == << >>

\* _remove_proposal
RemoveProposal(queue, pid) ==
    SelectSeq(queue, LAMBDA p : p.proposal_id # pid)

\* the keys one alias may be written under: its key, and its accent-folded
\* key when that differs
MigrationKeys(a) == {KeyOf(a), KeyOf(StripAccOf(a))}

\* a migration that writes every key, whatever the cache holds under it
MigrationPairsClobbering(kv, aliases, id) ==
    PairsOf(UNION {MigrationKeys(a) : a \in aliases}, id)

\* the alias migration of approve_proposal_as_new and
\* mark_proposal_as_duplicate: a key is written when the cache holds
\* nothing or id under it
MigrationPairs(kv, aliases, id) ==
    PairsOf({k \in UNION {MigrationKeys(a) : a \in aliases} :
                 KvGet(kv, k) = None \/ KvGet(kv, k) = id}, id)

\* root["data"][str(new_id)] = record: an existing key keeps its place
PutRecord(data, rec) ==
    IF rec.id \in IdsOf(data)
    THEN [i \in 1..Len(data) |-> IF data[i].id = rec.id THEN rec ELSE data[i]]
    ELSE Append(data, rec)

\* an allocation that leaves the counter where it was
NextIdKept(new_id) == new_id

\* root["meta"]["next_id"] = new_id + 1
NextIdAfter(new_id) == new_id + 1

\* approve_proposal_as_new, for a proposal that is in the queue
ApproveProposalAsNew(root, queue, kv, pid) ==
    LET target == queue[FindProposal(queue, pid)]
        new_id == EnsureMeta(root)
        rec == [id |-> new_id, canonical_name |-> Strip(target.canonical_name_guess)]
    IN  [root |-> [has_meta |-> TRUE, next_id |-> NextIdAfter(new_id),
                   data |-> PutRecord(root.data, rec)],
         kv |-> UpsertMany(kv, MigrationPairs(kv, target.aliases, new_id)),
         queue |-> RemoveProposal(queue, pid),
         id |-> new_id]

\* a mark_proposal_as_duplicate that merges the aliases whatever it is told
MarkDuplicateMerging(queue, kv, pid, existing_id, merge_aliases) ==
    LET target == queue[FindProposal(queue, pid)]
    IN  [kv |-> UpsertMany(kv, MigrationPairs(kv, target.aliases, existing_id)),
         queue |-> RemoveProposal(queue, pid)]

\* mark_proposal_as_duplicate, for a proposal that is in the queue
MarkProposalAsDuplicate(queue, kv, pid, existing_id, merge_aliases) ==
    LET target == queue[FindProposal(queue, pid)]
    IN  [kv |-> IF merge_aliases
                THEN UpsertMany(kv, MigrationPairs(kv, target.aliases, existing_id))
                ELSE kv,
         queue |-> RemoveProposal(queue, pid)]

\* cmd_set_next_id: the document it saves
SetNextId(root, value) ==
    [has_meta |-> TRUE, next_id |-> value, data |-> root.data]

(***************************************************************************)
(* The state machine.  The player domain and the tournament domain share   *)
(* no store (each has its own corpus document, queue document and alias    *)
(* table), so a behaviour exercises one of them: domain names which.       *)
(***************************************************************************)
\* bounds of the model
MaxSightings  == 2
MaxProposalId == 2

\* the source of a sighting
Feed == "SportPesa"

VARIABLES
    domain,     \* "players" or "tournaments"
    hashSeed,   \* the string-hash salt of the running process
    pKV,        \* table player_aliases
    pRoot,      \* all_players.json
    pQueue,     \* unmapped_players.json: the list "proposals"
    pExt,       \* _EXT_INDEX of the running process
    tKV,        \* table tournament_aliases
    tRoot,      \* all_tournaments.json
    tQueue,     \* unmapped_tournaments.json: the list "proposals"
    uuidCtr,    \* the proposal ids drawn so far (uuid4 never repeats)
    lastCall,   \* the last call and what it returned
    runMemo,    \* _PLAYER_CACHE and _TOURN_CACHE of the running process
    disk,       \* per document: the live file, its .tmp and its latest .bak
    saver,      \* where the running _save_json_atomic call stands
    procs,      \* the calls of the concurrent processes: position and loaded copies
    fetch,      \* the running SportPesaClient.fetch_markets call
    http,       \* the running _get_json call
    dedupe      \* the match list of scrape_sportpesa_tennis and its dedupe loop

vars == <<memo, domain, hashSeed, pKV, pRoot, pQueue, pExt, tKV, tRoot, tQueue, uuidCtr,
          lastCall, runMemo, disk, saver, procs, fetch, http, dedupe>>
playerVars == <<pKV, pRoot, pQueue, pExt>>
tournamentVars == <<tKV, tRoot, tQueue>>
\* the variables of the step-by-step models
stepVars == <<disk, saver, procs, fetch, http, dedupe>>
\* the variables of the HTTP client and of the scrape loop
clientVars == <<fetch, http, dedupe>>

\* no fetch_markets call is running
IdleFetch ==
    [pc |-> "idle", ids |-> << >>, rejected |-> {}, stack |-> << >>,
     out |-> {}, served |-> {}, dropped |-> {}, requests |-> 0, last |-> ""]

\* no _get_json call is running
IdleHttp ==
    [pc |-> "idle", retries |-> 0, attempt |-> 0, log |-> << >>, sleeps |-> 0,
     result |-> 0, raised |-> "", raised_at |-> 0]

\* no scrape is running
IdleDedupe ==
    [pc |-> "idle", matches |-> << >>, pos |-> 0, seen |-> << >>]

\* the processes that share the stores
Procs == {1, 2}

\* a process that is in no call
IdleProc ==
    [pc |-> "idle", op |-> "", raw |-> "", pid |-> 0,
     root |-> [has_meta |-> TRUE, next_id |-> 0, data |-> << >>], queue |-> << >>]

NoCalls == [p \in Procs |-> IdleProc]

\* the per-run caches of a process that has just imported sportpesa_common
EmptyRunMemo == [players |-> [k \in {} |-> k], tournaments |-> [k \in {} |-> k]]

\* what a file holds: nothing (no such file), or a prefix of the JSON text
\* of a version of the document
Absent == [state |-> "absent", version |-> 0]
Truncated(v) == [state |-> "empty", version |-> v]
Partial(v) == [state |-> "partial", version |-> v]
Complete(v) == [state |-> "complete", version |-> v]

\* the documents _save_json_atomic writes: all_players.json or
\* all_tournaments.json, and the unmapped_*.json of the domain
Files == {"corpus", "queue"}

\* the files of a deployment in which both documents have been saved before
SavedDisk == [f \in Files |-> [live |-> Complete(0), tmp |-> Absent, bak |-> Absent]]

\* no save is running
IdleSaver == [pc |-> "idle", module |-> "players", file |-> "corpus", version |-> 0]

\* the state of the run memo and of the files when no run and no save is on
AtRest ==
    /\ runMemo = EmptyRunMemo
    /\ disk = SavedDisk
    /\ saver = IdleSaver
    /\ procs = NoCalls
    /\ fetch = IdleFetch
    /\ http = IdleHttp
    /\ dedupe = IdleDedupe

\* what a call leaves behind for the observer
Obs(op, raw, uid, path, trace, status, pid) ==
    [op |-> op, raw |-> raw, uid |-> uid, path |-> path, trace |-> trace,
     status |-> status, pid |-> pid]

Init ==
    /\ memo = Memo
    /\ domain \in {"players", "tournaments"}
    /\ hashSeed \in IF domain = "players" THEN HashSeeds ELSE {0}
    /\ pKV = EmptyKV
    /\ pRoot = [has_meta |-> TRUE, next_id |-> 5, data |-> PlayerCorpus]
    /\ pQueue = << >>
    /\ pExt = NoExtIndex
    /\ tKV = EmptyKV
    /\ tRoot \in { [has_meta |-> m, next_id |-> IF m THEN 2 ELSE 0,
                     data |-> TournamentCorpus] :
                        m \in IF domain = "tournaments" THEN BOOLEAN ELSE {TRUE} }
    /\ tQueue = << >>
    /\ uuidCtr = 0
    /\ lastCall = Obs("init", "", None, "", << >>, "", 0)
    /\ AtRest

\* a register call may run: its proposal id is fresh, and the sightings
\* counter of the proposal it returns stays within the model
CanRegister(reg) ==
    /\ reg.prop.sightings <= MaxSightings
    /\ reg.prop.proposal_id <= MaxProposalId

\* what a register call adds to the state
Registered(reg, raw, r) ==
    /\ CanRegister(reg)
    /\ uuidCtr' = IF reg.prop.proposal_id = uuidCtr + 1 THEN uuidCtr + 1 ELSE uuidCtr
    /\ lastCall' = Obs("resolve_or_register", raw, None, r.path, r.trace,
                       "pending", reg.prop.proposal_id)

\* a lookup that registers the names it does not find
LookupThatRegisters(raw) ==
    /\ domain = "players"
    /\ \E r \in {ResolvePlayer(raw, pKV, pExt, pRoot.data, hashSeed)} :
        /\ pKV' = r.kv
        /\ pExt' = r.ext
        /\ lastCall' = Obs("lookup_only", raw, r.uid, r.path, r.trace,
                           IF r.uid = None THEN "absent" ELSE "hit", 0)
        /\ IF r.uid # None
           THEN UNCHANGED <<pQueue, uuidCtr>>
           ELSE \E reg \in {RegisterPlayer(pQueue, raw, uuidCtr + 1, Feed)} :
                    /\ CanRegister(reg)
                    /\ pQueue' = reg.queue
                    /\ uuidCtr' = IF reg.prop.proposal_id = uuidCtr + 1
                                  THEN uuidCtr + 1 ELSE uuidCtr
    /\ UNCHANGED <<memo, runMemo, stepVars, domain, hashSeed, pRoot, tournamentVars>>

\* lookup_player_only (resolve_player) on a market selection that is not a
\* competitor of the match: assemble_rows_for_match
LookupPlayerOnly(raw) ==
    /\ domain = "players"
    /\ \E r \in {ResolvePlayer(raw, pKV, pExt, pRoot.data, hashSeed)} :
        /\ pKV' = r.kv
        /\ pExt' = r.ext
        /\ lastCall' = Obs("lookup_only", raw, r.uid, r.path, r.trace,
                           IF r.uid = None THEN "absent" ELSE "hit", 0)
    /\ UNCHANGED <<memo, runMemo, stepVars, domain, hashSeed, pRoot, pQueue, tournamentVars, uuidCtr>>

\* resolve_or_register (players)
ResolveOrRegisterPlayer(raw) ==
    /\ domain = "players"
    /\ \E r \in {ResolvePlayer(raw, pKV, pExt, pRoot.data, hashSeed)} :
        /\ pKV' = r.kv
        /\ pExt' = r.ext
        /\ IF r.uid # None
           THEN /\ lastCall' = Obs("resolve_or_register", raw, r.uid, r.path,
                                   r.trace, "hit", 0)
                /\ UNCHANGED <<pQueue, uuidCtr>>
           ELSE \E reg \in {RegisterPlayer(pQueue, raw, uuidCtr + 1, Feed)} :
                    /\ Registered(reg, raw, r)
                    /\ pQueue' = reg.queue
    /\ UNCHANGED <<memo, runMemo, stepVars, domain, hashSeed, pRoot, tournamentVars>>

\* seed_aliases_from_canonicals (players)
SeedPlayerCanonicals ==
    /\ domain = "players"
    /\ pKV' = SeedAliasesFromCanonicals(pKV, pRoot.data)
    /\ lastCall' = Obs("seed", "", None, "", << >>, "", 0)
    /\ UNCHANGED <<memo, runMemo, stepVars, domain, hashSeed, pRoot, pQueue, pExt, tournamentVars, uuidCtr>>

\* seed_all_alias_variants
SeedPlayerVariants ==
    /\ domain = "players"
    /\ pKV' = SeedAllAliasVariants(pKV, pRoot.data)
    /\ lastCall' = Obs("seed_variants", "", None, "", << >>, "", 0)
    /\ UNCHANGED <<memo, runMemo, stepVars, domain, hashSeed, pRoot, pQueue, pExt, tournamentVars, uuidCtr>>

\* cmd_approve_new_player: alias_utils has no approve_proposal_as_new, so
\* the attribute lookup raises AttributeError before anything is read
ApproveNewPlayer(pid) ==
    /\ domain = "players"
    /\ lastCall' = Obs("approve_as_new", "", None, "", << >>, "attribute_error", pid)
    /\ UNCHANGED <<memo, runMemo, stepVars, domain, hashSeed, playerVars, tournamentVars, uuidCtr>>

\* cmd_duplicate_player: alias_utils has no mark_proposal_as_duplicate
DuplicatePlayer(pid, existing_id, merge_aliases) ==
    /\ domain = "players"
    /\ lastCall' = Obs("mark_duplicate", "", None, "", << >>, "attribute_error", pid)
    /\ UNCHANGED <<memo, runMemo, stepVars, domain, hashSeed, playerVars, tournamentVars, uuidCtr>>

\* a new process: the module global _EXT_INDEX is None again and the hash
\* salt is drawn anew
StartProcess ==
    /\ domain = "players"
    /\ pExt' = NoExtIndex
    /\ hashSeed' \in HashSeeds
    /\ lastCall' = Obs("start", "", None, "", << >>, "", 0)
    /\ UNCHANGED <<memo, runMemo, stepVars, domain, pKV, pRoot, pQueue, tournamentVars, uuidCtr>>

\* resolve_or_register (tournaments)
ResolveOrRegisterTournament(raw) ==
    /\ domain = "tournaments"
    /\ \E r \in {ResolveTournament(raw, tKV, tRoot.data)} :
        /\ tKV' = r.kv
        /\ IF r.uid # None
           THEN /\ lastCall' = Obs("resolve_or_register", raw, r.uid, r.path,
                                   r.trace, "hit", 0)
                /\ UNCHANGED <<tQueue, uuidCtr>>
           ELSE \E reg \in {RegisterTournament(tQueue, raw, uuidCtr + 1, Feed)} :
                    /\ Registered(reg, raw, r)
                    /\ tQueue' = reg.queue
    /\ UNCHANGED <<memo, runMemo, stepVars, domain, hashSeed, tRoot, playerVars>>

\* register_unmapped_tournament called by a collaborator on its own
RegisterTournamentAlone(raw) ==
    /\ domain = "tournaments"
    /\ \E reg \in {RegisterTournament(tQueue, raw, uuidCtr + 1, Feed)} :
        /\ CanRegister(reg)
        /\ tQueue' = reg.queue
        /\ uuidCtr' = IF reg.prop.proposal_id = uuidCtr + 1
                      THEN uuidCtr + 1 ELSE uuidCtr
        /\ lastCall' = Obs("register", raw, None, "", << >>, "pending",
                           reg.prop.proposal_id)
    /\ UNCHANGED <<memo, runMemo, stepVars, domain, hashSeed, tKV, tRoot, playerVars>>

\* seed_aliases_from_canonicals (tournaments)
SeedTournamentCanonicals ==
    /\ domain = "tournaments"
    /\ tKV' = UpsertMany(tKV, TournamentSeedPairs(tRoot.data))
    /\ lastCall' = Obs("seed", "", None, "", << >>, "", 0)
    /\ UNCHANGED <<memo, runMemo, stepVars, domain, hashSeed, tRoot, tQueue, playerVars, uuidCtr>>

\* approve_proposal_as_new (tournaments); a proposal id that is not in the
\* queue raises ValueError before anything is written
ApproveAsNew(pid) ==
    /\ domain = "tournaments"
    /\ IF FindProposal(tQueue, pid) = 0
       THEN /\ lastCall' = Obs("approve_as_new", "", None, "", << >>, "not_found", pid)
            /\ UNCHANGED <<tKV, tRoot, tQueue>>
       ELSE \E a \in {ApproveProposalAsNew(tRoot, tQueue, tKV, pid)} :
                /\ tRoot' = a.root
                /\ tKV' = a.kv
                /\ tQueue' = a.queue
                /\ lastCall' = Obs("approve_as_new", "", a.id, "", << >>, "ok", pid)
    /\ UNCHANGED <<memo, runMemo, stepVars, domain, hashSeed, playerVars, uuidCtr>>

\* mark_proposal_as_duplicate (tournaments)
MarkDuplicate(pid, existing_id, merge_aliases) ==
    /\ domain = "tournaments"
    /\ IF FindProposal(tQueue, pid) = 0
       THEN /\ lastCall' = Obs("mark_duplicate", "", None, "", << >>, "not_found", pid)
            /\ UNCHANGED <<tKV, tQueue>>
       ELSE \E d \in {MarkProposalAsDuplicate(tQueue, tKV, pid, existing_id,
                                               merge_aliases)} :
                /\ tKV' = d.kv
                /\ tQueue' = d.queue
                /\ lastCall' = Obs("mark_duplicate", "", existing_id,
                                   IF merge_aliases THEN "merge" ELSE "keep",
                                   << >>, "ok", pid)
    /\ UNCHANGED <<memo, runMemo, stepVars, domain, hashSeed, tRoot, playerVars, uuidCtr>>

\* cmd_set_next_id tournaments (on players it writes a field that no
\* operation of the player module reads)
SetNextIdTournaments(value) ==
    /\ domain = "tournaments"
    /\ tRoot' = SetNextId(tRoot, value)
    /\ lastCall' = Obs("set_next_id", "", value, "", << >>, "", 0)
    /\ UNCHANGED <<memo, runMemo, stepVars, domain, hashSeed, tKV, tQueue, playerVars, uuidCtr>>

ProposalIds == 1..MaxProposalId

PlayerNext ==
    \/ \E raw \in SelectionRaws : LookupPlayerOnly(raw)
    \/ \E raw \in PlayerRaws : ResolveOrRegisterPlayer(raw)
    \/ SeedPlayerCanonicals
    \/ SeedPlayerVariants
    \/ \E pid \in ProposalIds : ApproveNewPlayer(pid)
    \/ \E pid \in ProposalIds, e \in ExistingIds, m \in BOOLEAN : DuplicatePlayer(pid, e, m)
    \/ StartProcess

TournamentNext ==
    \/ \E raw \in TournamentRaws : ResolveOrRegisterTournament(raw)
    \/ \E raw \in TournamentRaws : RegisterTournamentAlone(raw)
    \/ SeedTournamentCanonicals
    \/ \E pid \in ProposalIds : ApproveAsNew(pid)
    \/ \E pid \in ProposalIds, e \in ExistingIds, m \in BOOLEAN : MarkDuplicate(pid, e, m)
    \/ \E v \in NextIdValues : SetNextIdTournaments(v)

Next == PlayerNext \/ TournamentNext

Spec == Init /\ [][Next]_vars

\* the runs of one domain
PlayerInit == Init /\ domain = "players"
TournamentInit == Init /\ domain = "tournaments"
PlayerSpec == PlayerInit /\ [][PlayerNext]_vars
TournamentSpec == TournamentInit /\ [][TournamentNext]_vars

(***************************************************************************)
(* The alias cache on its own: upsert_player_aliases and                   *)
(* upsert_tournament_aliases applied to batches of (alias, id) pairs, on   *)
(* the tables init_db creates.                                             *)
(***************************************************************************)
\* the longest batch
MaxBatch == 2

\* the alias keys and the ids of the batches
BatchKeys == {"rafael nadal", "r nadal"}
BatchIds == {1, 2}

RECURSIVE BatchesOfLen(_)
BatchesOfLen(n) ==
    IF n = 0 THEN {<< >>}
    ELSE {Append(b, <<k, id>>) : b \in BatchesOfLen(n - 1), k \in BatchKeys, id \in BatchIds}

\* the batches a caller may pass
Batches == UNION {BatchesOfLen(n) : n \in 0..MaxBatch}

CacheInit ==
    /\ memo = Memo
    /\ domain = "cache"
    /\ hashSeed = 0
    /\ pKV = EmptyKV
    /\ pRoot = [has_meta |-> TRUE, next_id |-> 5, data |-> PlayerCorpus]
    /\ pQueue = << >>
    /\ pExt = NoExtIndex
    /\ tKV = EmptyKV
    /\ tRoot = [has_meta |-> TRUE, next_id |-> 2, data |-> TournamentCorpus]
    /\ tQueue = << >>
    /\ uuidCtr = 0
    /\ lastCall = Obs("init", "", None, "", << >>, "", 0)
    /\ AtRest

\* upsert_player_aliases
UpsertPlayerAliases(pairs) ==
    /\ domain = "cache"
    /\ pKV' = UpsertMany(pKV, pairs)
    /\ lastCall' = Obs("upsert_player_aliases", "", None, "", pairs, "", 0)
    /\ UNCHANGED <<memo, runMemo, stepVars, domain, hashSeed, pRoot, pQueue, pExt, tournamentVars, uuidCtr>>

\* upsert_tournament_aliases
UpsertTournamentAliases(pairs) ==
    /\ domain = "cache"
    /\ tKV' = UpsertMany(tKV, pairs)
    /\ lastCall' = Obs("upsert_tournament_aliases", "", None, "", pairs, "", 0)
    /\ UNCHANGED <<memo, runMemo, stepVars, domain, hashSeed, playerVars, tRoot, tQueue, uuidCtr>>

CacheNext ==
    \/ \E pairs \in Batches : UpsertPlayerAliases(pairs)
    \/ \E pairs \in Batches : UpsertTournamentAliases(pairs)

CacheSpec == CacheInit /\ [][CacheNext]_vars

(***************************************************************************)
(* The normalizer and the candidate generator on their own: a process     *)
(* hands a name to _clean_display_name, a surname to                       *)
(* _last_cores_from_surname, or a name to the candidate steps of           *)
(* resolve_player, and the observer sees what comes back.                  *)
(***************************************************************************)
GeneratorInit ==
    /\ memo = Memo
    /\ domain = "generator"
    /\ hashSeed \in HashSeeds
    /\ pKV = EmptyKV
    /\ pRoot = [has_meta |-> TRUE, next_id |-> 5, data |-> PlayerCorpus]
    /\ pQueue = << >>
    /\ pExt = NoExtIndex
    /\ tKV = EmptyKV
    /\ tRoot = [has_meta |-> TRUE, next_id |-> 2, data |-> TournamentCorpus]
    /\ tQueue = << >>
    /\ uuidCtr = 0
    /\ lastCall = Obs("init", "", None, "", << >>, "", 0)
    /\ AtRest

\* _clean_display_name(raw)
CleanDisplayName(raw) ==
    /\ domain = "generator"
    /\ lastCall' = Obs("clean", raw, None, "", <<CleanOf(raw)>>, "", 0)
    /\ UNCHANGED <<memo, runMemo, stepVars, domain, hashSeed, playerVars, tournamentVars, uuidCtr>>

\* _last_cores_from_surname(surname)
LastCoresFromSurname(surname) ==
    /\ domain = "generator"
    /\ lastCall' = Obs("last_cores", surname, None, "", LastCoresOf(surname, hashSeed), "", 0)
    /\ UNCHANGED <<memo, runMemo, stepVars, domain, hashSeed, playerVars, tournamentVars, uuidCtr>>

\* the candidates steps 2 and 3 of resolve_player(raw) walk through
GenerateCandidates(raw) ==
    /\ domain = "generator"
    /\ lastCall' = Obs("candidates", raw, None, "",
                       CacheCandidates(CleanOf(raw), hashSeed), "", 0)
    /\ UNCHANGED <<memo, runMemo, stepVars, domain, hashSeed, playerVars, tournamentVars, uuidCtr>>

\* the names handed to the normalizer and to the candidate steps
GeneratorInputs == PlayerRaws \cup TournamentRaws \cup CorpusNames \cup ProbeNames

GeneratorNext ==
    \/ \E raw \in GeneratorInputs : CleanDisplayName(raw)
    \/ \E surname \in SurnameInputs : LastCoresFromSurname(surname)
    \/ \E raw \in GeneratorInputs : GenerateCandidates(raw)

GeneratorSpec == GeneratorInit /\ [][GeneratorNext]_vars

(***************************************************************************)
(* Seeding and lookups on the corpora in which two records share a key.    *)
(***************************************************************************)
TwinInit ==
    /\ memo = Memo
    /\ domain = "players"
    /\ hashSeed \in HashSeeds
    /\ pKV = EmptyKV
    /\ pRoot \in {[has_meta |-> TRUE, next_id |-> 8, data |-> data] : data \in OddCorpora}
    /\ pQueue = << >>
    /\ pExt = NoExtIndex
    /\ tKV = EmptyKV
    /\ tRoot = [has_meta |-> TRUE, next_id |-> 2, data |-> TournamentCorpus]
    /\ tQueue = << >>
    /\ uuidCtr = 0
    /\ lastCall = Obs("init", "", None, "", << >>, "", 0)
    /\ AtRest

TwinNext ==
    \/ \E raw \in OddRaws : LookupPlayerOnly(raw)
    \/ SeedPlayerCanonicals
    \/ SeedPlayerVariants
    \/ StartProcess

TwinSpec == TwinInit /\ [][TwinNext]_vars

(***************************************************************************)
(* The scrape runs of one process: scrape_sportpesa_tennis clears the      *)
(* per-run caches, then assemble_rows_for_match hands the competition name *)
(* of each match to norm_tournament and its competitor names to            *)
(* norm_player_single.                                                     *)
(***************************************************************************)
\* _norm_key
NormKey(s) == StripAccOf(KeyOf(s))

\* `key in _PLAYER_CACHE`, a cache that is never found to hold a key
NeverMemoized(cache, key) == FALSE

\* `key in _PLAYER_CACHE`, `key in _TOURN_CACHE`
Memoized(cache, key) == key \in DOMAIN cache

\* `_PLAYER_CACHE[key] = out`, `_TOURN_CACHE[key] = out`
MemoStore(cache, key, out) == (key :> out) @@ cache

\* the dict norm_player_single and norm_tournament make of a hit
HitOut(uid, canonical) ==
    [id |-> uid, canonical |-> canonical, status |-> "hit", proposal_id |-> 0]

\* the dict they make of a pending result
PendingOut(raw, pid) ==
    [id |-> None, canonical |-> raw, status |-> "pending", proposal_id |-> pid]

\* what the observer sees of a call answered from the per-run cache
MemoObs(op, raw, out) ==
    Obs(op, raw, out.id, "memo", << >>, out.status, out.proposal_id)

ScrapeInit ==
    /\ memo = Memo
    /\ domain = "scrape"
    /\ hashSeed = 0
    /\ pKV = EmptyKV
    /\ pRoot = [has_meta |-> TRUE, next_id |-> 5, data |-> PlayerCorpus]
    /\ pQueue = << >>
    /\ pExt = NoExtIndex
    /\ tKV = EmptyKV
    /\ tRoot = [has_meta |-> TRUE, next_id |-> 2, data |-> TournamentCorpus]
    /\ tQueue = << >>
    /\ uuidCtr = 0
    /\ lastCall = Obs("init", "", None, "", << >>, "", 0)
    /\ AtRest

\* scrape_sportpesa_tennis: the start of a run
ScrapeStart ==
    /\ domain = "scrape"
    /\ runMemo' = EmptyRunMemo
    /\ lastCall' = Obs("scrape_start", "", None, "", << >>, "", 0)
    /\ UNCHANGED <<memo, stepVars, domain, hashSeed, playerVars, tournamentVars, uuidCtr>>

\* norm_player_single(raw)
NormPlayerSingle(raw) ==
    /\ domain = "scrape"
    /\ IF Memoized(runMemo.players, NormKey(raw))
       THEN /\ lastCall' = MemoObs("norm_player_single", raw,
                                   runMemo.players[NormKey(raw)])
            /\ UNCHANGED <<runMemo, playerVars, uuidCtr>>
       ELSE \E r \in {ResolvePlayer(raw, pKV, pExt, pRoot.data, hashSeed)} :
            /\ pKV' = r.kv
            /\ pExt' = r.ext
            /\ pRoot' = pRoot
            /\ IF r.uid # None
               THEN /\ lastCall' = Obs("norm_player_single", raw, r.uid, r.path,
                                       r.trace, "hit", 0)
                    /\ runMemo' = [runMemo EXCEPT !.players =
                           MemoStore(@, NormKey(raw),
                                     HitOut(r.uid, CanonicalNameOf(pRoot.data, r.uid)))]
                    /\ UNCHANGED <<pQueue, uuidCtr>>
               ELSE \E reg \in {RegisterPlayer(pQueue, raw, uuidCtr + 1, Feed)} :
                    /\ CanRegister(reg)
                    /\ uuidCtr' = IF reg.prop.proposal_id = uuidCtr + 1
                                  THEN uuidCtr + 1 ELSE uuidCtr
                    /\ pQueue' = reg.queue
                    /\ lastCall' = Obs("norm_player_single", raw, None, r.path,
                                       r.trace, "pending", reg.prop.proposal_id)
                    /\ runMemo' = [runMemo EXCEPT !.players =
                           MemoStore(@, NormKey(raw),
                                     PendingOut(raw, reg.prop.proposal_id))]
    /\ UNCHANGED <<memo, stepVars, domain, hashSeed, tournamentVars>>

\* norm_tournament(raw)
NormTournament(raw) ==
    /\ domain = "scrape"
    /\ IF Memoized(runMemo.tournaments, NormKey(raw))
       THEN /\ lastCall' = MemoObs("norm_tournament", raw,
                                   runMemo.tournaments[NormKey(raw)])
            /\ UNCHANGED <<runMemo, tournamentVars, uuidCtr>>
       ELSE \E r \in {ResolveTournament(raw, tKV, tRoot.data)} :
            /\ tKV' = r.kv
            /\ tRoot' = tRoot
            /\ IF r.uid # None
               THEN /\ lastCall' = Obs("norm_tournament", raw, r.uid, r.path,
                                       r.trace, "hit", 0)
                    /\ runMemo' = [runMemo EXCEPT !.tournaments =
                           MemoStore(@, NormKey(raw),
                                     HitOut(r.uid, CanonicalNameOf(tRoot.data, r.uid)))]
                    /\ UNCHANGED <<tQueue, uuidCtr>>
               ELSE \E reg \in {RegisterTournament(tQueue, raw, uuidCtr + 1, Feed)} :
                    /\ CanRegister(reg)
                    /\ uuidCtr' = IF reg.prop.proposal_id = uuidCtr + 1
                                  THEN uuidCtr + 1 ELSE uuidCtr
                    /\ tQueue' = reg.queue
                    /\ lastCall' = Obs("norm_tournament", raw, None, r.path,
                                       r.trace, "pending", reg.prop.proposal_id)
                    /\ runMemo' = [runMemo EXCEPT !.tournaments =
                           MemoStore(@, NormKey(raw),
                                     PendingOut(raw, reg.prop.proposal_id))]
    /\ UNCHANGED <<memo, stepVars, domain, hashSeed, playerVars>>

ScrapeNext ==
    \/ ScrapeStart
    \/ \E raw \in ScrapePlayerRaws : NormPlayerSingle(raw)
    \/ \E raw \in ScrapeTournamentRaws : NormTournament(raw)

ScrapeSpec == ScrapeInit /\ [][ScrapeNext]_vars

(***************************************************************************)
(* _save_json_atomic, step by step, in a process that may die between any  *)
(* two steps.  A document is known by its version; what dies with the      *)
(* process is the call, what stays is the files.                           *)
(***************************************************************************)
\* the versions of a document the runs write
MaxVersion == 2

\* the modules that define _save_json_atomic
SaveModules == {"players", "tournaments"}

\* shutil.copy2(path, backup)
CopyToBackup(d, f) == [d EXCEPT ![f].bak = d[f].live]

\* an open that cuts the live file itself to nothing
OpenLive(d, f, v) == [d EXCEPT ![f].live = Truncated(v)]

\* open(tmp, "w"): the temp file is created, or cut to nothing
OpenTmp(d, f, v) == [d EXCEPT ![f].tmp = Truncated(v)]

\* json.dump(obj, f) writes the text piece by piece; the last piece ends it
WritePiece(d, f) ==
    [d EXCEPT ![f].tmp = IF d[f].tmp.state = "empty"
                         THEN Partial(d[f].tmp.version)
                         ELSE Complete(d[f].tmp.version)]

\* os.replace(tmp, path)
ReplaceLive(d, f) == [d EXCEPT ![f].live = d[f].tmp, ![f].tmp = Absent]

SaveInit ==
    /\ memo = Memo
    /\ domain = "save"
    /\ hashSeed = 0
    /\ pKV = EmptyKV
    /\ pRoot = [has_meta |-> TRUE, next_id |-> 5, data |-> PlayerCorpus]
    /\ pQueue = << >>
    /\ pExt = NoExtIndex
    /\ tKV = EmptyKV
    /\ tRoot = [has_meta |-> TRUE, next_id |-> 2, data |-> TournamentCorpus]
    /\ tQueue = << >>
    /\ uuidCtr = 0
    /\ lastCall = Obs("init", "", None, "", << >>, "", 0)
    /\ runMemo = EmptyRunMemo
    /\ disk \in [Files -> {[live |-> l, tmp |-> Absent, bak |-> Absent] :
                                l \in {Absent, Complete(0)}}]
    /\ saver = IdleSaver
    /\ procs = NoCalls
    /\ fetch = IdleFetch
    /\ http = IdleHttp
    /\ dedupe = IdleDedupe

\* save_players, save_tournaments or save_unmapped is called with the next
\* version of the document
BeginSave(module, f) ==
    /\ domain = "save"
    /\ saver.pc = "idle"
    /\ disk[f].live.version < MaxVersion
    /\ saver' = [pc |-> "backup", module |-> module, file |-> f,
                 version |-> disk[f].live.version + 1]
    /\ UNCHANGED <<memo, runMemo, procs, clientVars, disk, domain, hashSeed, playerVars, tournamentVars,
                   uuidCtr, lastCall>>

\* `if path.exists(): shutil.copy2(path, backup)`: the copy may fail; the
\* players module swallows the exception, the tournaments module lets it
\* end the call
BackupStep(copied) ==
    /\ domain = "save"
    /\ saver.pc = "backup"
    /\ IF disk[saver.file].live.state = "absent"
       THEN /\ copied
            /\ disk' = disk
            /\ saver' = [saver EXCEPT !.pc = "open"]
       ELSE IF copied
       THEN /\ disk' = CopyToBackup(disk, saver.file)
            /\ saver' = [saver EXCEPT !.pc = "open"]
       ELSE /\ disk' = disk
            /\ saver' = IF saver.module = "players"
                        THEN [saver EXCEPT !.pc = "open"] ELSE IdleSaver
    /\ UNCHANGED <<memo, runMemo, procs, clientVars, domain, hashSeed, playerVars, tournamentVars,
                   uuidCtr, lastCall>>

\* `with open(tmp, "w") as f`
OpenStep ==
    /\ domain = "save"
    /\ saver.pc = "open"
    /\ disk' = OpenTmp(disk, saver.file, saver.version)
    /\ saver' = [saver EXCEPT !.pc = "write"]
    /\ UNCHANGED <<memo, runMemo, procs, clientVars, domain, hashSeed, playerVars, tournamentVars,
                   uuidCtr, lastCall>>

\* one piece of json.dump; after the last piece the with block closes tmp
WriteStep ==
    /\ domain = "save"
    /\ saver.pc = "write"
    /\ disk' = WritePiece(disk, saver.file)
    /\ saver' = IF disk[saver.file].tmp.state = "empty"
                THEN saver ELSE [saver EXCEPT !.pc = "replace"]
    /\ UNCHANGED <<memo, runMemo, procs, clientVars, domain, hashSeed, playerVars, tournamentVars,
                   uuidCtr, lastCall>>

\* os.replace(tmp, path), and the call returns
ReplaceStep ==
    /\ domain = "save"
    /\ saver.pc = "replace"
    /\ disk' = ReplaceLive(disk, saver.file)
    /\ saver' = [saver EXCEPT !.pc = "idle"]
    /\ UNCHANGED <<memo, runMemo, procs, clientVars, domain, hashSeed, playerVars, tournamentVars,
                   uuidCtr, lastCall>>

\* the process dies inside the call; the files stay as they are
Crash ==
    /\ domain = "save"
    /\ saver.pc \in {"backup", "open", "write", "replace"}
    /\ saver' = [saver EXCEPT !.pc = "crashed"]
    /\ UNCHANGED <<memo, runMemo, procs, clientVars, disk, domain, hashSeed, playerVars, tournamentVars,
                   uuidCtr, lastCall>>

\* a new process starts on the files the dead one left
Restart ==
    /\ domain = "save"
    /\ saver.pc = "crashed"
    /\ saver' = IdleSaver
    /\ UNCHANGED <<memo, runMemo, procs, clientVars, disk, domain, hashSeed, playerVars, tournamentVars,
                   uuidCtr, lastCall>>

SaveNext ==
    \/ \E module \in SaveModules, f \in Files : BeginSave(module, f)
    \/ \E copied \in BOOLEAN : BackupStep(copied)
    \/ OpenStep
    \/ WriteStep
    \/ ReplaceStep
    \/ Crash
    \/ Restart

SaveSpec == SaveInit /\ [][SaveNext]_vars

(***************************************************************************)
(* Two processes on the tournament stores.  register_unmapped_tournament   *)
(* and approve_proposal_as_new read the two JSON files into copies of      *)
(* their own (load_databases), change the copies and write them back; no   *)
(* lock and no transaction spans the reads and the writes, so the reads    *)
(* and writes of two calls interleave, and a process can die between two   *)
(* writes.  Each process makes one call.                                   *)
(***************************************************************************)

\* the names the processes register
StepRaws == {"Rome Open", "Cordoba Open"}

\* a queue that holds one pending proposal for each name of StepRaws
PendingPair ==
    RegisterTournament(
        RegisterTournament(<< >>, "Rome Open", 1, Feed).queue,
        "Cordoba Open", 2, Feed).queue

\* the corpus file the processes start from
StepRoot == [has_meta |-> TRUE, next_id |-> 2, data |-> TournamentCorpus]

\* the positions of a call that has read or written and is not over
MidCall == {"root_loaded", "loaded", "upserted", "root_saved"}

StepInit ==
    /\ memo = Memo
    /\ domain = "steps"
    /\ hashSeed = 0
    /\ pKV = EmptyKV
    /\ pRoot = [has_meta |-> TRUE, next_id |-> 5, data |-> PlayerCorpus]
    /\ pQueue = << >>
    /\ pExt = NoExtIndex
    /\ tKV = EmptyKV
    /\ tRoot = StepRoot
    /\ tQueue \in {<< >>, PendingPair}
    /\ uuidCtr = Len(tQueue)
    /\ lastCall = Obs("init", "", None, "", << >>, "", 0)
    /\ AtRest

\* the frame of a step of a process
StepFrame ==
    UNCHANGED <<memo, runMemo, disk, saver, clientVars, domain, hashSeed, playerVars, lastCall>>

\* load_databases, first read: the copy a call holds after it has read the
\* corpus file
RootLoaded(op, raw, pid) ==
    [pc |-> "root_loaded", op |-> op, raw |-> raw, pid |-> pid,
     root |-> [tRoot EXCEPT !.next_id = EnsureMeta(tRoot), !.has_meta = TRUE],
     queue |-> << >>]

\* a process enters register_unmapped_tournament(raw) and reads the corpus
StartRegister(p, raw) ==
    /\ domain = "steps"
    /\ procs[p].pc = "idle"
    /\ procs' = [procs EXCEPT ![p] = RootLoaded("register", raw, 0)]
    /\ UNCHANGED <<tournamentVars, uuidCtr>>
    /\ StepFrame

\* a process enters approve_proposal_as_new(pid) and reads the corpus
StartApprove(p, pid) ==
    /\ domain = "steps"
    /\ procs[p].pc = "idle"
    /\ procs' = [procs EXCEPT ![p] = RootLoaded("approve", "", pid)]
    /\ UNCHANGED <<tournamentVars, uuidCtr>>
    /\ StepFrame

\* load_databases, second read: the queue file
LoadQueue(p) ==
    /\ domain = "steps"
    /\ procs[p].pc = "root_loaded"
    /\ procs' = [procs EXCEPT ![p].pc = "loaded", ![p].queue = tQueue]
    /\ UNCHANGED <<tournamentVars, uuidCtr>>
    /\ StepFrame

\* register_unmapped_tournament after the load: merge or append in the
\* loaded copy, then save_unmapped writes the copy over the queue file
RegisterSave(p) ==
    /\ domain = "steps"
    /\ procs[p].pc = "loaded"
    /\ procs[p].op = "register"
    /\ \E reg \in {RegisterTournament(procs[p].queue, procs[p].raw, uuidCtr + 1, Feed)} :
        /\ tQueue' = reg.queue
        /\ uuidCtr' = uuidCtr + 1
        /\ procs' = [procs EXCEPT ![p].pc = "done", ![p].queue = reg.queue,
                                  ![p].pid = reg.prop.proposal_id]
    /\ UNCHANGED <<tKV, tRoot>>
    /\ StepFrame

\* approve_proposal_as_new after the load: find the proposal in the loaded
\* copy (ValueError when it is not there), put the record in the loaded
\* corpus, and upsert the migrated aliases into the shared cache
ApproveUpsert(p) ==
    /\ domain = "steps"
    /\ procs[p].pc = "loaded"
    /\ procs[p].op = "approve"
    /\ IF FindProposal(procs[p].queue, procs[p].pid) = 0
       THEN /\ procs' = [procs EXCEPT ![p].pc = "failed"]
            /\ UNCHANGED tKV
       ELSE \E a \in {ApproveProposalAsNew(procs[p].root, procs[p].queue, tKV,
                                           procs[p].pid)} :
                /\ tKV' = a.kv
                /\ procs' = [procs EXCEPT ![p].pc = "upserted", ![p].root = a.root]
    /\ UNCHANGED <<tRoot, tQueue, uuidCtr>>
    /\ StepFrame

\* save_tournaments(root): the loaded corpus, with the new record, replaces
\* the corpus file
ApproveSaveRoot(p) ==
    /\ domain = "steps"
    /\ procs[p].pc = "upserted"
    /\ tRoot' = procs[p].root
    /\ procs' = [procs EXCEPT ![p].pc = "root_saved"]
    /\ UNCHANGED <<tKV, tQueue, uuidCtr>>
    /\ StepFrame

\* save_unmapped(_remove_proposal(unmapped, pid)): the loaded queue, without
\* the proposal, replaces the queue file
ApproveSaveQueue(p) ==
    /\ domain = "steps"
    /\ procs[p].pc = "root_saved"
    /\ tQueue' = RemoveProposal(procs[p].queue, procs[p].pid)
    /\ procs' = [procs EXCEPT ![p].pc = "done",
                              ![p].queue = RemoveProposal(procs[p].queue, procs[p].pid)]
    /\ UNCHANGED <<tKV, tRoot, uuidCtr>>
    /\ StepFrame

\* the process dies in the middle of its call
CrashProc(p) ==
    /\ domain = "steps"
    /\ procs[p].pc \in MidCall
    /\ procs' = [procs EXCEPT ![p].pc = "crashed"]
    /\ UNCHANGED <<tournamentVars, uuidCtr>>
    /\ StepFrame

StepNext ==
    \/ \E p \in Procs, raw \in StepRaws : StartRegister(p, raw)
    \/ \E p \in Procs, pid \in ProposalIds : StartApprove(p, pid)
    \/ \E p \in Procs : LoadQueue(p)
    \/ \E p \in Procs : RegisterSave(p)
    \/ \E p \in Procs : ApproveUpsert(p)
    \/ \E p \in Procs : ApproveSaveRoot(p)
    \/ \E p \in Procs : ApproveSaveQueue(p)
    \/ \E p \in Procs : CrashProc(p)

StepSpec == StepInit /\ [][StepNext]_vars

(***************************************************************************)
(* The HTTP client and the scrape loop of sportpesa_common.py.  The stores *)
(* of the resolver take no part in them.                                   *)
(***************************************************************************)

\* the resolver's state while a client model runs
QuietStores ==
    /\ memo = Memo
    /\ hashSeed = 0
    /\ pKV = EmptyKV
    /\ pRoot = [has_meta |-> TRUE, next_id |-> 5, data |-> PlayerCorpus]
    /\ pQueue = << >>
    /\ pExt = NoExtIndex
    /\ tKV = EmptyKV
    /\ tRoot = StepRoot
    /\ tQueue = << >>
    /\ uuidCtr = 0
    /\ lastCall = Obs("init", "", None, "", << >>, "", 0)
    /\ runMemo = EmptyRunMemo
    /\ disk = SavedDisk
    /\ saver = IdleSaver
    /\ procs = NoCalls

\* what a step of a client model leaves alone
ClientFrame ==
    UNCHANGED <<memo, runMemo, disk, saver, procs, domain, hashSeed, playerVars,
                tournamentVars, uuidCtr, lastCall>>

(***************************************************************************)
(* SportPesaClient.fetch_markets: chunks of MARKET_CHUNK_SIZE ids, and a   *)
(* chunk answered with HTTP 422 is split in two halves that are fetched in *)
(* its place.  The recursion of fetch_chunk is the stack of chunks still   *)
(* to fetch.  The server answers 422 exactly to the chunks that hold a     *)
(* rejected id; any request can fail in another way.                       *)
(***************************************************************************)

\* the longest list of game ids
MaxGames == 5

\* MARKET_CHUNK_SIZE, 20 in the program, kept small so that a list of
\* MaxGames ids makes several chunks
MarketChunkSize == 4

\* the game ids; 0 stands for the entries that `if x` filters out
GameIds == 0..3

\* the lists of game ids handed to fetch_markets
GameLists == UNION {[1..n -> GameIds] : n \in 0..MaxGames}

\* ids = [int(x) for x in game_ids if x]
Truthy(id) == id # 0
TruthyIds(game_ids) == SelectSeq(game_ids, Truthy)

\* ids[i : i + MARKET_CHUNK_SIZE] for i in range(0, len(ids), MARKET_CHUNK_SIZE)
RECURSIVE ChunksOf(_)
ChunksOf(ids) ==
    IF ids = << >> THEN << >>
    ELSE IF Len(ids) <= MarketChunkSize THEN <<ids>>
    ELSE <<SubSeq(ids, 1, MarketChunkSize)>>
             \o ChunksOf(SubSeq(ids, MarketChunkSize + 1, Len(ids)))

\* a split that loses the id in the middle
SplitDroppingOne(chunk) ==
    <<SubSeq(chunk, 1, Len(chunk) \div 2),
      SubSeq(chunk, Len(chunk) \div 2 + 2, Len(chunk))>>

\* mid = len(chunk) // 2; chunk[:mid], chunk[mid:]
SplitChunk(chunk) ==
    <<SubSeq(chunk, 1, Len(chunk) \div 2),
      SubSeq(chunk, Len(chunk) \div 2 + 1, Len(chunk))>>

\* the ids of a chunk
ChunkIds(chunk) == {chunk[i] : i \in 1..Len(chunk)}

FetchInit ==
    /\ QuietStores
    /\ domain = "fetch"
    /\ fetch \in {[IdleFetch EXCEPT !.rejected = r] : r \in SUBSET (GameIds \ {0})}
    /\ http = IdleHttp
    /\ dedupe = IdleDedupe

\* fetch_markets(game_ids): filter the ids, return {} when none is left,
\* otherwise line up the chunks
FetchMarkets(game_ids) ==
    /\ domain = "fetch"
    /\ fetch.pc = "idle"
    /\ fetch' = [fetch EXCEPT !.ids = TruthyIds(game_ids),
                              !.stack = ChunksOf(TruthyIds(game_ids)),
                              !.pc = IF TruthyIds(game_ids) = << >>
                                     THEN "returned" ELSE "run"]
    /\ UNCHANGED <<http, dedupe>>
    /\ ClientFrame

\* fetch_chunk(chunk): one _get_json call for the chunk; its data go into
\* out; on 422 a chunk of one id is given up and a longer one is replaced
\* by its two halves; any other error leaves fetch_markets
FetchChunk(other) ==
    /\ domain = "fetch"
    /\ fetch.pc = "run"
    /\ fetch.stack # << >>
    /\ LET chunk == Head(fetch.stack)
           rest == Tail(fetch.stack)
           answer == IF other THEN "error"
                     ELSE IF ChunkIds(chunk) \cap fetch.rejected # {} THEN "422"
                     ELSE "ok"
       IN  fetch' =
             IF chunk = << >> THEN [fetch EXCEPT !.stack = rest]
             ELSE IF answer = "ok"
             THEN [fetch EXCEPT !.stack = rest, !.requests = @ + 1, !.last = answer,
                                !.out = @ \cup ChunkIds(chunk),
                                !.served = @ \cup ChunkIds(chunk)]
             ELSE IF answer = "422" /\ Len(chunk) = 1
             THEN [fetch EXCEPT !.stack = rest, !.requests = @ + 1, !.last = answer,
                                !.dropped = @ \cup ChunkIds(chunk)]
             ELSE IF answer = "422"
             THEN [fetch EXCEPT !.stack = SplitChunk(chunk) \o rest,
                                !.requests = @ + 1, !.last = answer]
             ELSE [fetch EXCEPT !.pc = "raised", !.requests = @ + 1, !.last = answer]
    /\ UNCHANGED <<http, dedupe>>
    /\ ClientFrame

\* return out, after the last chunk
ReturnMarkets ==
    /\ domain = "fetch"
    /\ fetch.pc = "run"
    /\ fetch.stack = << >>
    /\ fetch' = [fetch EXCEPT !.pc = "returned"]
    /\ UNCHANGED <<http, dedupe>>
    /\ ClientFrame

FetchNext ==
    \/ \E game_ids \in GameLists : FetchMarkets(game_ids)
    \/ \E other \in BOOLEAN : FetchChunk(other)
    \/ ReturnMarkets

\* a call that has started goes on: the code has no wait in it
FetchSpec == FetchInit /\ [][FetchNext]_vars /\ WF_vars(FetchNext)

(***************************************************************************)
(* _get_json: up to `retries` requests.  log is the outcome of every       *)
(* request made so far; a response is named by the number of its attempt.  *)
(***************************************************************************)

\* the largest value of the retries parameter (its default is 4)
MaxRetries == 4

\* what requests.get / raise_for_status / r.json() raise that is a
\* RequestException
RequestExceptions == {"HTTPError", "ConnectionError"}

\* the outcomes of one attempt: the JSON, a request exception, or an
\* exception that is none (not caught by `except RequestException`)
Outcomes == {"ok", "ValueError"} \cup RequestExceptions

\* a loop that runs once more than retries
OneAttemptMore(h) == h.attempt <= h.retries

\* for attempt in range(retries)
MoreAttempts(h) == h.attempt < h.retries

HttpInit ==
    /\ QuietStores
    /\ domain = "http"
    /\ http \in {[IdleHttp EXCEPT !.retries = n] : n \in 0..MaxRetries}
    /\ fetch = IdleFetch
    /\ dedupe = IdleDedupe

\* _get_json(url, ...) is entered: headers merged, last_exc = None
GetJson ==
    /\ domain = "http"
    /\ http.pc = "idle"
    /\ http' = [http EXCEPT !.pc = "loop"]
    /\ UNCHANGED <<fetch, dedupe>>
    /\ ClientFrame

\* one turn of the loop: the request and what follows it
Attempt(outcome) ==
    /\ domain = "http"
    /\ http.pc = "loop"
    /\ MoreAttempts(http)
    /\ http' =
         IF outcome = "ok"
         THEN [http EXCEPT !.pc = "returned", !.log = Append(@, outcome),
                           !.result = http.attempt + 1]
         ELSE IF outcome \in RequestExceptions
         THEN [http EXCEPT !.log = Append(@, outcome), !.attempt = @ + 1,
                           !.sleeps = IF http.attempt < http.retries - 1
                                      THEN @ + 1 ELSE @]
         ELSE [http EXCEPT !.pc = "raised", !.log = Append(@, outcome),
                           !.raised = outcome, !.raised_at = http.attempt + 1]
    /\ UNCHANGED <<fetch, dedupe>>
    /\ ClientFrame

\* after the loop: raise last_exc, or RuntimeError when there is none
RaiseLast ==
    /\ domain = "http"
    /\ http.pc = "loop"
    /\ ~MoreAttempts(http)
    /\ http' = [http EXCEPT !.pc = "raised",
                            !.raised = IF http.log = << >> THEN "RuntimeError"
                                       ELSE http.log[Len(http.log)],
                            !.raised_at = Len(http.log)]
    /\ UNCHANGED <<fetch, dedupe>>
    /\ ClientFrame

HttpNext ==
    \/ GetJson
    \/ \E outcome \in Outcomes : Attempt(outcome)
    \/ RaiseLast

HttpSpec == HttpInit /\ [][HttpNext]_vars

(***************************************************************************)
(* scrape_sportpesa_tennis up to uniq_matches: the highlights feed, then   *)
(* the live feed, each tagged with its scope and appended to matches, then *)
(* the dedupe loop.  A feed is the list of the ids of its entries; an      *)
(* entry of matches carries its position n, which tells apart two entries  *)
(* of one id and one scope.  seen is the dict in insertion order.          *)
(***************************************************************************)

\* the longest feed
MaxFeed == 2

\* the match ids; 0 stands for an entry without "id" (m.get("id") is None)
MatchIds == 0..2

\* what a feed can hold
Feeds == UNION {[1..n -> MatchIds] : n \in 0..MaxFeed}

\* m["scope"] = scope for every m of the feed; matches.extend(feed)
Extended(matches, feed, scope) ==
    matches \o [i \in 1..Len(feed) |->
                   [id |-> feed[i], scope |-> scope, n |-> Len(matches) + i]]

\* a loop in which the first entry of an id always stays
ReplacesNever(m) == FALSE

\* if m.get("scope") == "live": seen[mid] = m
Replaces(m) == m.scope = "live"

\* the index in seen of the entry with the id, 0 when mid is not in seen
SeenAt(seen, mid) ==
    IF \E i \in 1..Len(seen) : seen[i].id = mid
    THEN CHOOSE i \in 1..Len(seen) : seen[i].id = mid
    ELSE 0

\* one turn of `for m in matches`
SeenAfter(seen, m) ==
    IF SeenAt(seen, m.id) # 0
    THEN IF Replaces(m) THEN [seen EXCEPT ![SeenAt(seen, m.id)] = m] ELSE seen
    ELSE Append(seen, m)

DedupeInit ==
    /\ QuietStores
    /\ domain = "dedupe"
    /\ dedupe = IdleDedupe
    /\ fetch = IdleFetch
    /\ http = IdleHttp

\* the highlights block: skipped (include_highlights false), failed (the
\* exception is caught and printed), or the feed is tagged and appended
FetchHighlights(feed, done) ==
    /\ domain = "dedupe"
    /\ dedupe.pc = "idle"
    /\ dedupe' = [dedupe EXCEPT !.pc = "highlights_done",
                     !.matches = IF done THEN Extended(@, feed, "highlight") ELSE @]
    /\ UNCHANGED <<fetch, http>>
    /\ ClientFrame

\* the live block, likewise
FetchLive(feed, done) ==
    /\ domain = "dedupe"
    /\ dedupe.pc = "highlights_done"
    /\ dedupe' = [dedupe EXCEPT !.pc = "loop",
                     !.matches = IF done THEN Extended(@, feed, "live") ELSE @]
    /\ UNCHANGED <<fetch, http>>
    /\ ClientFrame

\* one turn of the dedupe loop
DedupeStep ==
    /\ domain = "dedupe"
    /\ dedupe.pc = "loop"
    /\ dedupe.pos < Len(dedupe.matches)
    /\ dedupe' = [dedupe EXCEPT !.pos = @ + 1,
                     !.seen = SeenAfter(@, dedupe.matches[dedupe.pos + 1])]
    /\ UNCHANGED <<fetch, http>>
    /\ ClientFrame

\* uniq_matches = list(seen.values())
UniqMatches ==
    /\ domain = "dedupe"
    /\ dedupe.pc = "loop"
    /\ dedupe.pos = Len(dedupe.matches)
    /\ dedupe' = [dedupe EXCEPT !.pc = "done"]
    /\ UNCHANGED <<fetch, http>>
    /\ ClientFrame

DedupeNext ==
    \/ \E feed \in Feeds, done \in BOOLEAN : FetchHighlights(feed, done)
    \/ \E feed \in Feeds, done \in BOOLEAN : FetchLive(feed, done)
    \/ DedupeStep
    \/ UniqMatches

DedupeSpec == DedupeInit /\ [][DedupeNext]_vars

(***************************************************************************)
(* Properties                                                              *)
(***************************************************************************)
\* the calls that resolve a player name
ResolveOps == {"lookup_only", "resolve_or_register"}

\* the kinds of the events of a trace, in order
IndexAccesses(trace) == {i \in 1..Len(trace) : trace[i].kind = "idx"}
CacheProbes(trace) == {i \in 1..Len(trace) : trace[i].kind = "kv"}

\* resolve_player on raw in the current state
ResolveNow(raw) == ResolvePlayer(raw, pKV, pExt, pRoot.data, hashSeed)

\* the proposal queue of the domain of the run
Queue == IF domain = "players" THEN pQueue ELSE tQueue

\* C1: after a resolve that found its id through the index only, the same
\* resolve run again at once returns the same id and does not access the
\* index.
C1_IndexHitHeals ==
    (lastCall.op \in ResolveOps /\ lastCall.path = "index") =>
        /\ ResolveNow(lastCall.raw).uid = lastCall.uid
        /\ IndexAccesses(ResolveNow(lastCall.raw).trace) = {}

\* C2: in every resolve call all cache probes come before all index
\* accesses, and a call that accesses the index has probed, and missed, the
\* cleaned original, its accent-folded form and every generated candidate.
C2_IndexOnlyAfterCacheMisses ==
    lastCall.op \in ResolveOps =>
        LET t == lastCall.trace
            orig == CleanOf(lastCall.raw)
            names == <<orig>> \o CacheCandidates(orig, hashSeed)
            probed == {t[i].key : i \in CacheProbes(t)}
        IN  /\ \A i \in IndexAccesses(t), j \in CacheProbes(t) : j < i
            /\ IndexAccesses(t) # {} =>
                 /\ \A j \in CacheProbes(t) : ~t[j].hit
                 /\ \A n \in 1..Len(names) :
                        {KeyOf(CleanOf(names[n])),
                         KeyOf(StripAccOf(CleanOf(names[n])))} \subseteq probed

\* C2 happens: a comma-form name, with candidates, was found by the index
C2_Witness ==
    /\ lastCall.op \in ResolveOps
    /\ lastCall.path = "index"
    /\ Len(CacheCandidates(CleanOf(lastCall.raw), hashSeed)) > 0
    /\ Cardinality(CacheProbes(lastCall.trace)) > 2

\* C3: after a resolve that missed the cache on the original and hit it on
\* a candidate, the keys of the original are bound to the returned id, and
\* the same resolve run again hits the direct lookup without probing a
\* candidate.
C3_CandidateHitHeals ==
    (lastCall.op \in ResolveOps /\ lastCall.path = "candidate") =>
        LET orig == CleanOf(lastCall.raw)
            again == ResolveNow(lastCall.raw)
        IN  /\ KvGet(pKV, KeyOf(orig)) = lastCall.uid
            /\ KvGet(pKV, KeyOf(StripAccOf(orig))) = lastCall.uid
            /\ again.uid = lastCall.uid
            /\ again.path = "direct"
            /\ Len(again.trace) <= 2

\* C4: a resolve that missed the cache everywhere returns the id of the
\* first of the original and the generated candidates, in generation
\* order, that the index knows, and absent only when it knows none.
C4_IndexOnEveryCandidate ==
    (lastCall.op \in ResolveOps /\ lastCall.path \in {"index", "none"}) =>
        LET orig == CleanOf(lastCall.raw)
            names == <<orig>> \o CacheCandidates(orig, hashSeed)
            index == BuildExtIndex(pRoot.data)
            hits == {n \in 1..Len(names) : KvGet(index, ExtKey(names[n])) # None}
            first == CHOOSE n \in hits : \A m \in hits : n <= m
        IN  IF hits = {} THEN lastCall.uid = None
            ELSE lastCall.uid = KvGet(index, ExtKey(names[first]))

\* C5: a resolve_or_register step ends in hit, with the id resolve finds
\* and the queue unchanged, or in pending, when resolve finds nothing, and
\* then the queue holds a pending proposal with the returned proposal id
\* whose raw_samples contains the raw name.
C5_HitOrPending ==
    [][lastCall'.op = "resolve_or_register" =>
          LET found == IF domain = "players"
                       THEN ResolveNow(lastCall'.raw).uid
                       ELSE ResolveTournament(lastCall'.raw, tKV, tRoot.data).uid
          IN  \/ /\ lastCall'.status = "hit"
                 /\ found # None
                 /\ lastCall'.uid = found
                 /\ Queue' = Queue
              \/ /\ lastCall'.status = "pending"
                 /\ found = None
                 /\ \E i \in 1..Len(Queue') :
                        /\ Queue'[i].proposal_id = lastCall'.pid
                        /\ Queue'[i].status = "pending"
                        /\ lastCall'.raw \in Range(Queue'[i].raw_samples)]_vars

\* C5 happens: a call ended in pending on a proposal seen before
C5_Witness ==
    /\ lastCall.op = "resolve_or_register"
    /\ lastCall.status = "pending"
    /\ \E i \in 1..Len(Queue) :
           Queue[i].proposal_id = lastCall.pid /\ Queue[i].sightings > 1

\* C6: a lookup_only step leaves the proposal queue as it was.
C6_LookupOnlyKeepsQueue ==
    [][lastCall'.op = "lookup_only" => pQueue' = pQueue]_vars

\* C6 happens: a lookup missed a name that has a proposal in the queue
C6_Witness ==
    /\ lastCall.op = "lookup_only"
    /\ lastCall.status = "absent"
    /\ \E i \in 1..Len(pQueue) : lastCall.raw \in Range(pQueue[i].raw_samples)

\* C7: every alias the cache binds to an id resolves to that id, and so does
\* its accent-folded form.
C7_RegisteredAliasResolves ==
    \A x \in DOMAIN pKV :
        /\ ResolveNow(x).uid = pKV[x]
        /\ ResolveNow(StripAccOf(x)).uid = pKV[x]

\* C8: an approve_as_new step leaves every cache entry bound to another id
\* as it was, and writes only keys that were absent or bound to the new id.
C8_ApproveDoesNotClobber ==
    [][(lastCall'.op = "approve_as_new" /\ lastCall'.status = "ok") =>
          /\ \A k \in DOMAIN tKV :
                 tKV[k] # lastCall'.uid => KvGet(tKV', k) = tKV[k]
          /\ \A k \in DOMAIN tKV' :
                 (k \notin DOMAIN tKV) => tKV'[k] = lastCall'.uid]_vars

\* C8 happens: the name of the record just approved is an alias of another
\* id, as it was before the approval
C8_Witness ==
    /\ lastCall.op = "approve_as_new"
    /\ lastCall.status = "ok"
    /\ \E i \in 1..Len(tRoot.data) :
           /\ tRoot.data[i].id = lastCall.uid
           /\ KvGet(tKV, KeyOf(tRoot.data[i].canonical_name)) \notin {None, lastCall.uid}

\* C9: an approve_as_new step issues an id that no record of the corpus has,
\* and keeps every record of the corpus, with its id and its content.
C9_ApproveNeverReusesId ==
    [][(lastCall'.op = "approve_as_new" /\ lastCall'.status = "ok") =>
          /\ lastCall'.uid \notin IdsOf(tRoot.data)
          /\ Range(tRoot.data) \subseteq Range(tRoot'.data)]_vars

\* C10: no step lowers next_id, as load_databases returns it.
C10_NextIdNeverRegresses ==
    [][EnsureMeta(tRoot') >= EnsureMeta(tRoot)]_vars

\* the last call was a disposition that went through
Approved(call) == call.op = "approve_as_new" /\ call.status = "ok"
Disposed(call) == call.op \in {"approve_as_new", "mark_duplicate"} /\ call.status = "ok"

\* C11: an approve_as_new step issues the id next_id had and leaves next_id
\* one above it; next_id moves in approve_as_new and set-next-id steps only,
\* so two approvals with no set-next-id between them issue increasing ids,
\* the second right after the first issuing a larger id; and the approval
\* that follows set-next-id(v) issues v and leaves next_id at v + 1.
C11_ApproveAllocatesNextId ==
    [][/\ Approved(lastCall') =>
              /\ lastCall'.uid = EnsureMeta(tRoot)
              /\ tRoot'.has_meta
              /\ tRoot'.next_id = lastCall'.uid + 1
              /\ Approved(lastCall) => lastCall'.uid > lastCall.uid
              /\ lastCall.op = "set_next_id" =>
                     /\ lastCall'.uid = lastCall.uid
                     /\ tRoot'.next_id = lastCall.uid + 1
       /\ EnsureMeta(tRoot') # EnsureMeta(tRoot) =>
              \/ Approved(lastCall')
              \/ lastCall'.op = "set_next_id"]_vars

\* C11 happens: set-next-id(500), then an approval that issued 500
C11_Witness ==
    /\ Approved(lastCall)
    /\ lastCall.uid = 500
    /\ tRoot.next_id = 501
    /\ 500 \in IdsOf(tRoot.data)

\* C12: every id the alias cache of a domain binds a key to is the id of a
\* record of the corpus of that domain.
C12_AliasIdsExist ==
    /\ \A k \in DOMAIN tKV : tKV[k] \in IdsOf(tRoot.data)
    /\ \A k \in DOMAIN pKV : pKV[k] \in IdsOf(pRoot.data)

\* the proposal ids of a queue
QueuedIds(queue) == {queue[i].proposal_id : i \in 1..Len(queue)}

\* the calls that dispose of a proposal
DispositionOps == {"approve_as_new", "mark_duplicate"}

\* C13: a disposition step on a proposal id that is not in the queue ends in
\* not-found, and only such a step does; it leaves the corpus, next_id, the
\* alias cache and the queue as they were.
C13_NotFoundChangesNothing ==
    [][lastCall'.op \in DispositionOps =>
          /\ lastCall'.status = "not_found" <=> lastCall'.pid \notin QueuedIds(tQueue)
          /\ lastCall'.status = "not_found" =>
                 /\ tRoot' = tRoot
                 /\ tKV' = tKV
                 /\ tQueue' = tQueue]_vars

\* C13 happens: a disposition failed on a queue that holds another proposal
C13_Witness ==
    /\ lastCall.op \in DispositionOps
    /\ lastCall.status = "not_found"
    /\ tQueue # << >>
    /\ tKV # EmptyKV

C15_MarkDuplicateMerge ==
    [][(lastCall'.op = "mark_duplicate" /\ lastCall'.status = "ok") =>
          /\ lastCall'.path = "keep" => tKV' = tKV
          /\ lastCall'.path = "merge" =>
                 /\ \A k \in DOMAIN tKV :
                        tKV[k] # lastCall'.uid => KvGet(tKV', k) = tKV[k]
                 /\ \A k \in DOMAIN tKV' :
                        KvGet(tKV, k) # tKV'[k] =>
                            /\ k \notin DOMAIN tKV
                            /\ tKV'[k] = lastCall'.uid]_vars

\* C15 happens: a merge whose every alias key was bound to another id wrote
\* nothing
C15_Witness ==
    /\ lastCall.op = "mark_duplicate"
    /\ lastCall.status = "ok"
    /\ lastCall.path = "merge"
    /\ tKV # EmptyKV
    /\ \A k \in DOMAIN tKV : tKV[k] # lastCall.uid

\* C16: a disposition step on a proposal of the player queue goes through
\* and removes the proposal from the player queue; approve-as-new issues
\* the players' next_id, leaves the counter one above it, and the corpus
\* holds a record with the issued id.
C16_PlayerDispositions ==
    [][(/\ domain = "players"
        /\ lastCall'.op \in DispositionOps
        /\ lastCall'.pid \in QueuedIds(pQueue)) =>
          /\ lastCall'.status = "ok"
          /\ lastCall'.pid \notin QueuedIds(pQueue')
          /\ lastCall'.op = "approve_as_new" =>
                 /\ lastCall'.uid = EnsureMeta(pRoot)
                 /\ EnsureMeta(pRoot') = lastCall'.uid + 1
                 /\ lastCall'.uid \in IdsOf(pRoot'.data)]_vars

\* the normal form register compares raw names by: the key of the
\* accent-folded cleaned name for players, of the accent-folded name for
\* tournaments
NormRaw(raw) ==
    IF domain = "players" THEN KeyOf(StripAccOf(CleanOf(raw)))
    ELSE KeyOf(StripAccOf(raw))

\* the normal form of the canonical guess of a raw name
NormGuess(raw) ==
    IF domain = "players" THEN KeyOf(StripAccOf(GuessOf(raw).canonical_guess))
    ELSE KeyOf(StripAccOf(Title(Strip(raw))))

\* raw names a proposal: by a raw sample or by the guess
Names(raw, p) ==
    \/ NormRaw(raw) \in {NormRaw(p.raw_samples[i]) : i \in 1..Len(p.raw_samples)}
    \/ NormGuess(raw) = KeyOf(StripAccOf(p.canonical_name_guess))

\* the step registered a sighting
RegisteredNow(call) == call.op \in {"resolve_or_register", "register"} /\ call.status = "pending"

\* C17: a register step of a raw that names a queued proposal, by the
\* normal form of a raw sample or of the guess, keeps the length of the
\* queue and returns a queued proposal that raw names, its sightings one
\* higher; a raw that names none is appended as a proposal of its own with
\* one sighting.  Registering again the only raw of a queue of one proposal
\* leaves one proposal with one raw sample and two sightings.
C17_RegisterMerges ==
    [][RegisteredNow(lastCall') =>
          LET raw == lastCall'.raw
              hits == {i \in 1..Len(Queue) : Names(raw, Queue[i])}
          IN  /\ hits # {} =>
                     /\ Len(Queue') = Len(Queue)
                     /\ \E i \in hits :
                            /\ Queue'[i].proposal_id = lastCall'.pid
                            /\ Queue[i].proposal_id = lastCall'.pid
                            /\ Queue'[i].sightings = Queue[i].sightings + 1
                            /\ \A j \in 1..Len(Queue) : j # i => Queue'[j] = Queue[j]
              /\ hits = {} =>
                     /\ Len(Queue') = Len(Queue) + 1
                     /\ SubSeq(Queue', 1, Len(Queue)) = Queue
                     /\ Queue'[Len(Queue')].proposal_id = lastCall'.pid
                     /\ Queue'[Len(Queue')].sightings = 1
                     /\ Queue'[Len(Queue')].raw_samples = <<raw>>
              /\ (/\ Len(Queue) = 1
                  /\ Queue[1].raw_samples = <<raw>>
                  /\ Queue[1].sightings = 1) =>
                     /\ Len(Queue') = 1
                     /\ Queue'[1].raw_samples = <<raw>>
                     /\ Queue'[1].sightings = 2]_vars

\* C17 happens: the same raw name was registered twice on an empty queue
C17_Witness ==
    /\ RegisteredNow(lastCall)
    /\ Len(Queue) = 1
    /\ Queue[1].raw_samples = <<lastCall.raw>>
    /\ Queue[1].sightings = 2

\* C18: a register step that merges a sighting into a queued proposal
\* raises its sightings by one, appends the raw name to raw_samples unless
\* it is there, keeps every alias it had, and appends the context of the
\* sighting, so that the context list is as long as sightings says.
C18_MergeRecordsSighting ==
    [][RegisteredNow(lastCall') =>
          \A i \in 1..Len(Queue) :
              Queue[i].proposal_id = lastCall'.pid =>
                  /\ Queue'[i].sightings = Queue[i].sightings + 1
                  /\ Queue'[i].raw_samples =
                         IF lastCall'.raw \in Range(Queue[i].raw_samples)
                         THEN Queue[i].raw_samples
                         ELSE Append(Queue[i].raw_samples, lastCall'.raw)
                  /\ Queue[i].aliases \subseteq Queue'[i].aliases
                  /\ Queue'[i].context = Append(Queue[i].context, Feed)
                  /\ Len(Queue'[i].context) = Queue'[i].sightings]_vars

\* C19: the alias set of every queued proposal holds the normal form
\* (cleaned, accent-folded, lowercased) of each of its raw samples.
C19_AliasesCoverRawSamples ==
    \A i \in 1..Len(Queue) :
        \A j \in 1..Len(Queue[i].raw_samples) :
            NormRaw(Queue[i].raw_samples[j]) \in Queue[i].aliases

\* the keys of a batch, and the id of the last pair of a batch with key k
KeysOf(pairs) == {pairs[i][1] : i \in 1..Len(pairs)}
LastIdOf(pairs, k) == pairs[Max({i \in 1..Len(pairs) : pairs[i][1] = k})][2]

\* what upsert_many has to make of a cache: the keys of the batch bound to
\* the id of their last pair, the other keys as they were, and the batch
\* applied once more changes nothing
UpsertedFrom(before, after, pairs) ==
    /\ DOMAIN after = DOMAIN before \cup KeysOf(pairs)
    /\ \A k \in KeysOf(pairs) : after[k] = LastIdOf(pairs, k)
    /\ \A k \in DOMAIN before \ KeysOf(pairs) : after[k] = before[k]
    /\ UpsertMany(after, pairs) = after

\* C20: an upsert_many step binds each key of its batch to the id of the
\* key's last pair, whatever the key was bound to, leaves the keys that are
\* not in the batch as they were, and is idempotent: the same batch applied
\* to the result gives the result.  The cache of the other domain is left
\* alone.
C20_UpsertLastWriteWins ==
    [][/\ lastCall'.op = "upsert_player_aliases" =>
              UpsertedFrom(pKV, pKV', lastCall'.trace) /\ tKV' = tKV
       /\ lastCall'.op = "upsert_tournament_aliases" =>
              UpsertedFrom(tKV, tKV', lastCall'.trace) /\ pKV' = pKV]_vars

\* C20 happens: a batch with two ids for one key was applied to a cache
\* that holds another key
C20_Witness ==
    /\ lastCall.op = "upsert_player_aliases"
    /\ \E i, j \in 1..Len(lastCall.trace) :
           /\ i < j
           /\ lastCall.trace[i][1] = lastCall.trace[j][1]
           /\ lastCall.trace[i][2] # lastCall.trace[j][2]
    /\ DOMAIN pKV # KeysOf(lastCall.trace)

\* the key a record is indexed under by its canonical name
TournamentKey(rec) == KeyOf(StripAccOf(rec.canonical_name))
PlayerKey(rec) == KeyOf(StripAccOf(CleanOf(rec.canonical_name)))

\* the id of the first record of a corpus whose key is k
FirstIdWithKey(data, k, KeyOfRec(_)) ==
    data[CHOOSE i \in 1..Len(data) :
             /\ KeyOfRec(data[i]) = k
             /\ \A j \in 1..(i - 1) : KeyOfRec(data[j]) # k].id

\* C21: the fallback index of each domain binds the key of every record's
\* canonical name to the id of the first record of the corpus, in file
\* order, that has that key.
C21_FirstRecordOwnsKey ==
    /\ \A i \in 1..Len(tRoot.data) :
           TournamentKey(tRoot.data[i]) # "" =>
               KvGet(CanonicalIndex(tRoot.data), TournamentKey(tRoot.data[i]))
                   = FirstIdWithKey(tRoot.data, TournamentKey(tRoot.data[i]), TournamentKey)
    /\ \A i \in 1..Len(pRoot.data) :
           PlayerKey(pRoot.data[i]) # "" =>
               KvGet(BuildExtIndex(pRoot.data), PlayerKey(pRoot.data[i]))
                   = FirstIdWithKey(pRoot.data, PlayerKey(pRoot.data[i]), PlayerKey)

\* C22: candidate generation never emits a surname particle as a surname by
\* itself: no surname core that _last_cores_from_surname returns, for any
\* surname (one made of particles only included), is a bare particle.
C22_NoBareParticleCore ==
    lastCall.op = "last_cores" =>
        \A i \in 1..Len(lastCall.trace) :
            Lower(Strip(lastCall.trace[i])) \notin SurnameParticles

\* C23: candidate order is stable: the candidate sequence a process builds
\* for a name is the sequence every other process builds for that name.
C23_CandidateOrderStable ==
    lastCall.op = "candidates" =>
        \A seed \in HashSeeds :
            CacheCandidates(CleanOf(lastCall.raw), seed) = lastCall.trace

\* C27: clean is idempotent: cleaning the result of _clean_display_name once
\* more gives that same result, for every input.
C27_CleanIdempotent ==
    lastCall.op = "clean" => Clean(lastCall.trace[1]) = lastCall.trace[1]

\* the cache holds what seed_all_alias_variants writes
SeededWithVariants ==
    \A i \in 1..Len(memo.variantPairs[pRoot.data]) :
        KvGet(pKV, memo.variantPairs[pRoot.data][i][1]) # None

\* C24: once the record of Rafael Nadal is seeded with variants, the
\* comma-inverted form "Nadal, Rafael" and the dotted-initial form
\* "R. Nadal" resolve to the id that "Rafael Nadal" resolves to.
C24_InvertedAndInitialResolve ==
    SeededWithVariants =>
        /\ ResolveNow("Rafael Nadal").uid = 1
        /\ ResolveNow("Nadal, Rafael").uid = 1
        /\ ResolveNow("R. Nadal").uid = 1

\* C25: once the record of Jan-Lennard Struff is seeded, "Struff,
\* Jan-Lennard", "J.-L. Struff" and "JL Struff" all resolve to its id.
C25_HyphenatedGivenResolves ==
    SeededWithVariants =>
        /\ ResolveNow("Struff, Jan-Lennard").uid = 4
        /\ ResolveNow("J.-L. Struff").uid = 4
        /\ ResolveNow("JL Struff").uid = 4

\* C26: once the record of Botic van de Zandschulp is seeded, "Botic
\* Zandschulp" and "Botic van de Zandschulp" resolve to the same id, the
\* id of that record.
C26_ParticleSurnameResolves ==
    SeededWithVariants =>
        /\ ResolveNow("Botic Zandschulp").uid = 2
        /\ ResolveNow("Botic van de Zandschulp").uid = 2

\* the cache is seeded with variants and both forms of the surname resolve
C26_Witness ==
    /\ SeededWithVariants
    /\ lastCall.op = "seed_variants"
    /\ ResolveNow("Botic Zandschulp").uid = 2
    /\ ResolveNow("Botic Zandschulp").path = "index"
    /\ ResolveNow("Botic van de Zandschulp").uid = 2

\* C30: resolve never fails and treats an empty normalized key as
\* unresolved: a resolve call on a raw name whose key is empty returns
\* absent, whatever the cache holds.
C30_EmptyKeyIsAbsent ==
    /\ domain = "tournaments"
    /\ lastCall.op = "resolve_or_register"
    /\ KeyOf(StripAccOf(lastCall.raw)) = ""
    => lastCall.uid = None

\* C28: saving a document is an atomic replace: whatever step of
\* _save_json_atomic the process dies at, the live file is never a
\* truncated or partial document; a step leaves it as it was or puts the
\* complete new version in its place.
C28_SaveIsAtomicReplace ==
    [][\A f \in Files :
          /\ disk'[f].live.state \in {"absent", "complete"}
          /\ \/ disk'[f].live = disk[f].live
             \/ /\ saver.file = f
                /\ disk'[f].live = Complete(saver.version)]_vars

\* the process died while json.dump was writing: the temp file is cut
\* short, the live file is the complete prior version
C28_Witness ==
    /\ saver.pc = "crashed"
    /\ disk[saver.file].tmp.state \in {"empty", "partial"}
    /\ disk[saver.file].live = Complete(saver.version - 1)
    /\ saver.version = 2

\* the calls that go through the per-run caches
NormOps == {"norm_player_single", "norm_tournament"}

\* the per-run cache a call goes through
RunCache(rm, op) == IF op = "norm_player_single" THEN rm.players ELSE rm.tournaments

\* C29: within a run the resolver is invoked at most once per normalized
\* key: a call invokes it only for a key the memo does not hold and leaves
\* the key memoized; a call on a memoized key is answered from the memo and
\* touches neither the cache, the queue nor the memo; the entries of the
\* memo stay as they are until the next run starts, and that start empties
\* the memo, so that nothing memoized in a run is returned in a later one.
C29_MemoOncePerKeyPerRun ==
    [][/\ lastCall'.op = "scrape_start" => runMemo' = EmptyRunMemo
       /\ lastCall'.op \in NormOps =>
            /\ \A k \in DOMAIN RunCache(runMemo, lastCall'.op) :
                   /\ k \in DOMAIN RunCache(runMemo', lastCall'.op)
                   /\ RunCache(runMemo', lastCall'.op)[k] = RunCache(runMemo, lastCall'.op)[k]
            /\ NormKey(lastCall'.raw) \in DOMAIN RunCache(runMemo', lastCall'.op)
            /\ IF NormKey(lastCall'.raw) \in DOMAIN RunCache(runMemo, lastCall'.op)
               THEN /\ lastCall'.path = "memo"
                    /\ lastCall'.uid = RunCache(runMemo, lastCall'.op)[NormKey(lastCall'.raw)].id
                    /\ UNCHANGED <<runMemo, playerVars, tournamentVars, uuidCtr>>
               ELSE lastCall'.path # "memo"]_vars

\* a later occurrence of a key, under another spelling, was answered from
\* the memo with the result of the first
C29_Witness ==
    /\ lastCall.op = "norm_player_single"
    /\ lastCall.path = "memo"
    /\ lastCall.status = "pending"
    /\ runMemo.players[NormKey(lastCall.raw)].canonical # lastCall.raw

\* C31: the alias cache and the entity index agree: a key that both hold is
\* bound to the same id in both, also after seeding from a corpus in which
\* two records derive that key.
C31_CacheAgreesWithIndex ==
    \A k \in DOMAIN pKV \cap DOMAIN BuildExtIndex(pRoot.data) :
        pKV[k] = BuildExtIndex(pRoot.data)[k]

\* C32: healing never rebinds an existing alias: a resolve call that heals
\* after a candidate hit leaves every key the cache held bound to the id it
\* had.
C32_HealNeverRebinds ==
    [][(lastCall'.op \in ResolveOps /\ lastCall'.path = "candidate")
          => \A k \in DOMAIN pKV : pKV'[k] = pKV[k]]_vars

\* the sum of the sightings of the proposals of a queue
RECURSIVE SumSightings(_)
SumSightings(queue) ==
    IF queue = << >> THEN 0
    ELSE Head(queue).sightings + SumSightings(Tail(queue))

\* the corpus holds a record with the id
HasRecord(data, id) == \E i \in 1..Len(data) : data[i].id = id

\* the id an approve call gave to its record
ApprovedId(call) == call.root.next_id - 1

\* the record an approve call created is in the corpus
RecordLanded(call, data) ==
    \E i \in 1..Len(call.root.data), j \in 1..Len(data) :
        /\ call.root.data[i].id = ApprovedId(call)
        /\ data[j] = call.root.data[i]

\* C33: when an approve_as_new call that found its proposal is cut off by a
\* crash (the other process having done nothing), its effects are all there
\* or none is: either the record is saved under the new id with next_id
\* advanced, aliases are bound to the new id and the proposal is gone from
\* the queue, or the corpus is as before, no alias is bound to the new id
\* and the proposal is still pending.
C33_ApproveAllOrNothing ==
    \A p \in Procs :
        (/\ procs[p].op = "approve"
         /\ procs[p].pc = "crashed"
         /\ FindProposal(procs[p].queue, procs[p].pid) # 0
         /\ \A q \in Procs \ {p} : procs[q].pc = "idle") =>
            LET new_id == EnsureMeta(StepRoot)
                saved == HasRecord(tRoot.data, new_id) /\ tRoot.next_id = NextIdAfter(new_id)
                untouched == tRoot = StepRoot
                migrated == \E k \in DOMAIN tKV : tKV[k] = new_id
                pending == FindProposal(tQueue, procs[p].pid) # 0
            IN  \/ saved /\ migrated /\ ~pending
                \/ untouched /\ ~migrated /\ pending

\* C34: when both processes run register, the step in which one of them
\* completes (its save of the queue) makes the sum of sightings of the
\* queue file grow by exactly one and leaves in the file a proposal for the
\* name registered by every call completed so far.
C34_NoSightingLost ==
    [][(/\ \A q \in Procs : procs'[q].op = "register"
        /\ \E p \in Procs : procs[p].pc = "loaded" /\ procs'[p].pc = "done") =>
            /\ SumSightings(tQueue') = SumSightings(tQueue) + 1
            /\ \A q \in Procs : procs'[q].pc = "done" =>
                   FindProposal(tQueue', procs'[q].pid) # 0]_vars

\* C35: when both processes have completed approve_as_new on two different
\* proposals, the two new ids differ, both new records are in the corpus
\* file and neither proposal is in the queue file.
C35_ConcurrentApprovalsBothLand ==
    (/\ \A p \in Procs : procs[p].op = "approve" /\ procs[p].pc = "done"
     /\ procs[1].pid # procs[2].pid) =>
        /\ ApprovedId(procs[1]) # ApprovedId(procs[2])
        /\ \A p \in Procs : RecordLanded(procs[p], tRoot.data)
        /\ \A p \in Procs : FindProposal(tQueue, procs[p].pid) = 0

\* no element occurs twice in the sequence
NoDuplicates(seq) == \A i, j \in 1..Len(seq) : seq[i] = seq[j] => i = j

\* C36: every register call, whether it appends a proposal or merges into
\* one, raises the sum of sightings over the queue by exactly one (so that
\* from an empty queue, with no disposition in between, the sum equals the
\* number of register calls), and leaves every proposal with sightings >= 1
\* and raw_samples free of duplicates.
C36_SightingsConserved ==
    [][RegisteredNow(lastCall') =>
          /\ SumSightings(Queue') = SumSightings(Queue) + 1
          /\ \A i \in 1..Len(Queue') :
                 /\ Queue'[i].sightings >= 1
                 /\ NoDuplicates(Queue'[i].raw_samples)]_vars

\* C36 happens: three register calls left two proposals, one of them seen
\* twice
C36_Witness ==
    /\ RegisteredNow(lastCall)
    /\ Len(Queue) = 2
    /\ SumSightings(Queue) = 3
    /\ \E i \in 1..Len(Queue) : Queue[i].sightings = 2

\* C37: the alias cache of neither domain ever holds a row whose key is the
\* empty string, whatever was seeded, healed, registered, approved or marked
\* duplicate before.
C37_NoEmptyAliasKey == "" \notin (DOMAIN pKV \cup DOMAIN tKV)

\* C38: fetch_markets always comes to an end; when it returns, every id of
\* the list that is not rejected was requested in a chunk that succeeded
\* and is in the returned map, and every rejected id was given up as a
\* chunk of its own and is not in the map; it raises exactly when a request
\* failed with an error other than 422.
C38_SplitAndRetryLosesNoGoodId ==
    /\ [](fetch.pc = "returned" =>
            \A id \in ChunkIds(fetch.ids) :
                /\ id \notin fetch.rejected => id \in fetch.served /\ id \in fetch.out
                /\ id \in fetch.rejected => id \in fetch.dropped /\ id \notin fetch.out)
    /\ [](fetch.pc = "raised" <=> fetch.last = "error")
    /\ (fetch.pc = "run" ~> fetch.pc \in {"returned", "raised"})

\* C38 happens: a list of several chunks with good and rejected ids was
\* fetched to the end, with splits on the way
C38_Witness ==
    /\ fetch.pc = "returned"
    /\ Len(fetch.ids) > MarketChunkSize
    /\ fetch.dropped # {}
    /\ fetch.out # {}
    /\ fetch.requests > Len(ChunksOf(fetch.ids)) + 1

\* C39: _get_json never makes more than `retries` requests; every request
\* but the last one ended in a request exception (so none follows a
\* success and a retry follows a request exception only); a call that
\* returned returns the JSON of its last request, which succeeded; a call
\* whose `retries` requests all failed has raised the exception of the last
\* one and returned nothing.
C39_AtMostRetriesRequests ==
    /\ Len(http.log) <= http.retries
    /\ \A i \in 1..Len(http.log) - 1 : http.log[i] \in RequestExceptions
    /\ http.pc = "returned" =>
           /\ http.log[Len(http.log)] = "ok"
           /\ http.result = Len(http.log)
    /\ (/\ http.pc \in {"returned", "raised"}
        /\ http.retries > 0
        /\ \A i \in 1..Len(http.log) : http.log[i] \in RequestExceptions) =>
           /\ http.pc = "raised"
           /\ Len(http.log) = http.retries
           /\ http.raised = http.log[http.retries]
           /\ http.raised_at = http.retries
           /\ http.result = 0

\* C39 happens: a call with room for several attempts succeeded after two
\* failures and stopped there
C39_Witness ==
    /\ http.pc = "returned"
    /\ Len(http.log) = 3
    /\ http.retries > 3

\* C39 happens as well: every attempt failed and the last exception was
\* raised
C39_WitnessRaised ==
    /\ http.pc = "raised"
    /\ http.retries = MaxRetries
    /\ Len(http.log) = MaxRetries
    /\ http.log[1] # http.log[MaxRetries]
    /\ http.raised \in RequestExceptions

\* the dedupe loop run over a whole list
RECURSIVE SeenOver(_, _)
SeenOver(seen, matches) ==
    IF matches = << >> THEN seen
    ELSE SeenOver(SeenAfter(seen, Head(matches)), Tail(matches))

\* match lists with highlight and live entries in every order
MixedMatches ==
    UNION {{[i \in 1..n |-> [id |-> ids[i], scope |-> scopes[i], n |-> i]] :
               ids \in [1..n -> MatchIds \ {0}],
               scopes \in [1..n -> {"highlight", "live"}]} : n \in 0..3}

\* uniq holds one entry of matches for each id of matches, a live one when
\* matches has a live entry of that id
DedupedRight(matches, uniq) ==
    /\ \A i, j \in 1..Len(uniq) : uniq[i].id = uniq[j].id => i = j
    /\ {uniq[i].id : i \in 1..Len(uniq)} = {matches[i].id : i \in 1..Len(matches)}
    /\ \A i \in 1..Len(uniq) :
           /\ \E j \in 1..Len(matches) : matches[j] = uniq[i]
           /\ (\E j \in 1..Len(matches) :
                   matches[j].id = uniq[i].id /\ matches[j].scope = "live")
                  => uniq[i].scope = "live"

\* C40: when the dedupe loop is over, uniq_matches holds each match id of
\* the fetched entries exactly once, and for an id with a live entry the
\* retained entry is a live one; the loop gives the same guarantee on every
\* list in which highlight and live entries are mixed in any order.
C40_DedupePrefersLive ==
    /\ dedupe.pc = "done" => DedupedRight(dedupe.matches, dedupe.seen)
    /\ \A matches \in MixedMatches : DedupedRight(matches, SeenOver(<< >>, matches))

\* C40 happens: an id came from both feeds, another from highlights only,
\* and the loop is over
C40_Witness ==
    /\ dedupe.pc = "done"
    /\ Len(dedupe.seen) = 2
    /\ Len(dedupe.matches) > 2
    /\ \E i, j \in 1..Len(dedupe.matches) :
           /\ dedupe.matches[i].id = dedupe.matches[j].id
           /\ dedupe.matches[i].scope = "highlight"
           /\ dedupe.matches[j].scope = "live"
    /\ \E i \in 1..Len(dedupe.seen) : dedupe.seen[i].scope = "highlight"
====
